---------------------------- MODULE Spec2Model ----------------------------
(***************************************************************************)
(* Discovery / shortlist / dismissal engine of phd-helper-functions.       *)
(*                                                                         *)
(* The model follows api/src/functions/newsreader.js (the Shortlist and    *)
(* Dismissal stores, the discovery run) and api/src/functions/             *)
(* references.js (the reference catalogue and its cascade into the         *)
(* Shortlist).  Strings are TLA+ strings; trimming, lower-casing,          *)
(* percent-decoding and tokenising are computed character by character.    *)
(* JavaScript's undefined / null / '' (all falsy, all normalised to '')    *)
(* are the empty string "".                                                *)
(***************************************************************************)
EXTENDS Integers, Sequences, FiniteSets, TLC

VARIABLES
    shortlistDoc,   \* analytics container, item 'shortlist': [exists, articles]
    referencesDb,   \* references container: catalogue references and dismissed records
    nextRefId,      \* number of references created so far (fresh ids)
    response,       \* the response of the last completed request
    reqs,           \* concurrent model: the requests in flight, one slot each
    ghost,          \* history: what has been dismissed / requested so far
    run             \* the discovery run (GetNewsreaderArticles) in progress

vars == <<shortlistDoc, referencesDb, nextRefId, response, reqs, ghost, run>>

-----------------------------------------------------------------------------
(* Bounds of the model *)

MaxRequests == 4
MaxShortlist == 2
MaxRefs == 1
MaxDismissals == 2
MaxItems == 3
MaxCollected == 40
MaxTokenSetSize == 12

-----------------------------------------------------------------------------
(* Strings *)

\* JavaScript's `a || b` on string-or-null values
Or(a, b) == IF a # "" THEN a ELSE b

UpperChars == "ABCDEFGHIJKLMNOPQRSTUVWXYZ"
LowerChars == "abcdefghijklmnopqrstuvwxyz"
DigitChars == "0123456789"

CharAt(s, i) == SubSeq(s, i, i)

\* the position of character c in alphabet (whose characters are distinct), 0 if absent
IndexIn(c, alphabet) ==
    IF \E i \in 1..Len(alphabet) : CharAt(alphabet, i) = c
    THEN CHOOSE i \in 1..Len(alphabet) : CharAt(alphabet, i) = c
    ELSE 0

IsSpaceChar(c) == c \in {" ", "\t", "\n", "\r"}
IsLowerAlnum(c) == IndexIn(c, LowerChars) > 0 \/ IndexIn(c, DigitChars) > 0
IsWordChar(c) == IsLowerAlnum(c) \/ IndexIn(c, UpperChars) > 0 \/ c = "_"

lowerChar(c) ==
    IF IndexIn(c, UpperChars) = 0 THEN c ELSE CharAt(LowerChars, IndexIn(c, UpperChars))

RECURSIVE toLowerCase(_)
toLowerCase(s) ==
    IF s = "" THEN "" ELSE lowerChar(CharAt(s, 1)) \o toLowerCase(Tail(s))

RECURSIVE trimStart(_)
trimStart(s) ==
    IF s # "" /\ IsSpaceChar(CharAt(s, 1)) THEN trimStart(Tail(s)) ELSE s

RECURSIVE trimEnd(_)
trimEnd(s) ==
    IF s # "" /\ IsSpaceChar(CharAt(s, Len(s)))
    THEN trimEnd(SubSeq(s, 1, Len(s) - 1)) ELSE s

trim(s) == trimEnd(trimStart(s))

\* a mutant of normalizeValue: lower-cases but does not trim
normalizeValue_noTrim(value) == toLowerCase(value)

\* newsreader.js: const normalizeValue = (value) => (value || '').toString().trim().toLowerCase()
normalizeValue(value) == toLowerCase(trim(value))


-----------------------------------------------------------------------------
(* Percent-decoding of a route / query identifier *)

HexChars == "0123456789ABCDEF"
\* the printable ASCII characters of codes 32 (space) .. 95 and 97 .. 126
AsciiLow == " !\"#$%&'()*+,-./0123456789:;<=>?@ABCDEFGHIJKLMNOPQRSTUVWXYZ[\\]^_"
AsciiHigh == "abcdefghijklmnopqrstuvwxyz{|}~"

asciiChar(code) ==
    IF code <= 95 THEN CharAt(AsciiLow, code - 31) ELSE CharAt(AsciiHigh, code - 96)

\* the value of a hexadecimal digit, -1 for any other character
hexValue(c) ==
    IF IndexIn(c, HexChars) > 0 THEN IndexIn(c, HexChars) - 1
    ELSE IndexIn(c, "0123456789abcdef") - 1

\* the code of the escape at the head of s ("%XX..."), or -1 when it is malformed;
\* only the printable ASCII range is decodable (a lone byte >= 0x80 is a URIError;
\* control characters and the backquote do not occur in the identifiers of the model)
byteCode(hi, lo) ==
    IF hi < 0 \/ lo < 0 THEN 0 - 1
    ELSE IF hi * 16 + lo < 32 \/ hi * 16 + lo > 126 \/ hi * 16 + lo = 96 THEN 0 - 1
    ELSE hi * 16 + lo

escapeCode(s) ==
    IF Len(s) < 3 THEN 0 - 1
    ELSE byteCode(hexValue(CharAt(s, 2)), hexValue(CharAt(s, 3)))

RECURSIVE uriMalformed(_)
uriMalformed(s) ==
    IF s = "" THEN FALSE
    ELSE IF CharAt(s, 1) = "%"
         THEN escapeCode(s) < 0 \/ uriMalformed(SubSeq(s, 4, Len(s)))
         ELSE uriMalformed(Tail(s))

RECURSIVE uriDecoded(_)
uriDecoded(s) ==
    IF s = "" THEN ""
    ELSE IF CharAt(s, 1) = "%"
         THEN asciiChar(escapeCode(s)) \o uriDecoded(SubSeq(s, 4, Len(s)))
         ELSE CharAt(s, 1) \o uriDecoded(Tail(s))

\* newsreader.js decodeIdentifier: decodeURIComponent, the value itself on URIError
decodeIdentifier(value) == IF uriMalformed(value) THEN value ELSE uriDecoded(value)

\* getIdentifierKeyFromRequest, lines 72-74; "" stands for the null result
identifierKeyOf(rawIdentifier) ==
    IF rawIdentifier = "" THEN "" ELSE normalizeValue(decodeIdentifier(rawIdentifier))

\* newsreader.js getIdentifierKeyFromRequest: the identifier of the route, else of
\* the query, else of the body
getIdentifierKeyFromRequest(request) ==
    identifierKeyOf(Or(request.params,
                       Or(request.query,
                          IF request.query = "" THEN request.body ELSE "")))

-----------------------------------------------------------------------------
(* Substrings: DOIs inside URLs, years inside text, keywords inside titles *)

\* String.prototype.includes
includes(text, part) ==
    \E i \in 1..(Len(text) - Len(part) + 1) : SubSeq(text, i, i + Len(part) - 1) = part

\* the positions at which part occurs in text
occurrences(text, part) ==
    {i \in 1..(Len(text) - Len(part) + 1) : SubSeq(text, i, i + Len(part) - 1) = part}

\* the regular-expression word boundary \b just before position i of text
wordBoundary(text, i) ==
    (i > 1 /\ i <= Len(text) + 1 /\ IsWordChar(CharAt(text, i - 1)))
        # (i >= 1 /\ i <= Len(text) /\ IsWordChar(CharAt(text, i)))

\* /\bword\b/.test(text)
hasWord(text, word) ==
    \E i \in occurrences(text, word) :
        wordBoundary(text, i) /\ wordBoundary(text, i + Len(word))

\* the longest prefix of s without '?' and '#':  [^?#]*
RECURSIVE untilQueryOrHash(_)
untilQueryOrHash(s) ==
    IF s = "" \/ CharAt(s, 1) \in {"?", "#"} THEN ""
    ELSE CharAt(s, 1) \o untilQueryOrHash(Tail(s))

\* newsreader.js extractDoiFromUrl: url.match(/doi\.org\/([^?#]+)/i), trimmed
doiMatches(url) ==
    {i \in occurrences(toLowerCase(url), "doi.org/") :
        untilQueryOrHash(SubSeq(url, i + 8, Len(url))) # ""}

extractDoiFromUrl(url) ==
    IF doiMatches(url) = {} THEN ""
    ELSE trim(untilQueryOrHash(
             SubSeq(url, 8 + (CHOOSE i \in doiMatches(url) :
                                 \A j \in doiMatches(url) : i <= j), Len(url))))

\* GetNewsreaderArticles, line 431: u.replace(/.*doi\.org\//, '') of a url that
\* includes 'doi.org' (the greedy .* runs up to the last 'doi.org/')
afterDoiOrg(u) ==
    IF occurrences(u, "doi.org/") = {} THEN u
    ELSE SubSeq(u, 8 + (CHOOSE i \in occurrences(u, "doi.org/") :
                           \A j \in occurrences(u, "doi.org/") : j <= i), Len(u))

\* parseInt(digits, 10) of a string of decimal digits
RECURSIVE parseInt(_)
parseInt(digits) ==
    IF digits = "" THEN 0
    ELSE 10 * parseInt(SubSeq(digits, 1, Len(digits) - 1))
         + IndexIn(CharAt(digits, Len(digits)), DigitChars) - 1

\* the positions at which /\b(19|20)\d{2}\b/ matches
yearMatches(text) ==
    {i \in 1..(Len(text) - 3) :
        /\ SubSeq(text, i, i + 1) \in {"19", "20"}
        /\ IndexIn(CharAt(text, i + 2), DigitChars) > 0
        /\ IndexIn(CharAt(text, i + 3), DigitChars) > 0
        /\ wordBoundary(text, i) /\ wordBoundary(text, i + 4)}

\* newsreader.js parseYearFromText; 0 stands for the null result
parseYearFromText(text) ==
    IF yearMatches(text) = {} THEN 0
    ELSE parseInt(SubSeq(text, (CHOOSE i \in yearMatches(text) :
                                   \A j \in yearMatches(text) : i <= j),
                         3 + (CHOOSE i \in yearMatches(text) :
                                   \A j \in yearMatches(text) : i <= j)))

-----------------------------------------------------------------------------
(* Title tokens (near-duplicate detection) *)

STOPWORDS ==
    {"about", "above", "after", "again", "against", "between", "beyond", "could",
     "should", "would", "these", "those", "their", "there", "where", "which",
     "while", "with", "without", "using", "study", "studies", "paper", "papers",
     "research", "analysis", "review", "approach", "model", "system", "method",
     "methods", "results", "effect", "effects", "based", "towards", "future"}

\* .replace(/[^a-z0-9\s]/g, ' ') followed by .split(/\s+/): the words of a
\* lower-cased text are its maximal runs of [a-z0-9]; cur is the word under
\* construction (the empty strings split() yields at the ends fail the length filter)
RECURSIVE splitWords(_, _)
splitWords(s, cur) ==
    IF s = "" THEN (IF cur = "" THEN <<>> ELSE <<cur>>)
    ELSE LET c == CharAt(s, 1)
         IN  IF IsLowerAlnum(c) THEN splitWords(Tail(s), cur \o c)
             ELSE (IF cur = "" THEN <<>> ELSE <<cur>>) \o splitWords(Tail(s), "")

\* newsreader.js tokenizeText: the array of retained tokens
tokenizeText(text) ==
    LET Retained(token) == Len(token) > 3 /\ token \notin STOPWORDS
    IN  SelectSeq(splitWords(toLowerCase(text), ""), Retained)

-----------------------------------------------------------------------------
(* The request inputs of the model *)

DoiInputs == {"", "10.1/a", " 10.1/A "}
TitleInputs == {"", "Old Title", "New Title", " "}

\* request bodies of AddToShortlist, DismissNewsreaderArticle and CreateReference
ArticleInputs == [doi : DoiInputs, title : TitleInputs, url : {""}]

\* request bodies of UpdateReference: any subset of the fields doi and title
UpdateInputs ==
    {b \in [hasDoi : BOOLEAN, doi : DoiInputs, hasTitle : BOOLEAN, title : TitleInputs] :
        (~b.hasDoi => b.doi = "") /\ (~b.hasTitle => b.title = "")}

\* requests of RemoveFromShortlist: the identifier in the route, the query or the body
IdentifierInputs == {"", "10.1%2FA", "10.1%2", "Old%20Title", "new title", " "}
RemoveInputs ==
    {[params |-> i, query |-> "", body |-> ""] : i \in IdentifierInputs}
    \cup {[params |-> "", query |-> "New Title", body |-> "10.1/a"],
          [params |-> "", query |-> "", body |-> "10.1/a"]}

\* titles the literature sources return
AiLabor == "AI and Creative Labor"
LaborTools == "Creative Labor and AI Tools"
DesignStudio == "Generative Design Studio"
MedicalAi == "Medical AI Imaging"
PageUrl == "https://x.org/p1"

\* CrossRef works: DOI, title[0], abstract, the date-parts of published and created
CrossRefItems ==
    {[DOI |-> "10.1/a", title |-> LaborTools, abstract |-> "",
      published |-> <<2026, 10, 1>>, created |-> <<2026, 10, 2>>],
     [DOI |-> "", title |-> DesignStudio, abstract |-> "",
      published |-> <<>>, created |-> <<2025>>],
     [DOI |-> "10.1/c", title |-> MedicalAi, abstract |-> "",
      published |-> <<2025, 3>>, created |-> <<2025>>],
     [DOI |-> "10.1/d", title |-> AiLabor, abstract |-> "",
      published |-> <<2019, 5, 20>>, created |-> <<2019>>]}

\* Semantic Scholar papers
SemanticScholarItems ==
    {[DOI |-> "", paperId |-> "abc123", title |-> AiLabor, abstract |-> "",
      year |-> 2026, publicationDate |-> "2026-09-20"],
     [DOI |-> "10.1/b", paperId |-> "def456", title |-> DesignStudio, abstract |-> "",
      year |-> 2022, publicationDate |-> ""],
     [DOI |-> "10.1/A", paperId |-> "ghi789", title |-> LaborTools, abstract |-> "",
      year |-> 2025, publicationDate |-> ""],
     [DOI |-> "10.1/c", paperId |-> "jkl012", title |-> DesignStudio, abstract |-> "",
      year |-> 2025, publicationDate |-> "n/a"]}

\* Google Scholar organic results (SerpAPI)
GoogleScholarItems ==
    {[title |-> AiLabor, link |-> PageUrl, snippet |-> "",
      summary |-> "J Doe - 2025 - x.org"],
     [title |-> LaborTools, link |-> PageUrl, snippet |-> "Published 2026.",
      summary |-> ""],
     [title |-> DesignStudio, link |-> "https://doi.org/10.1/B?ref=1", snippet |-> "",
      summary |-> "A Roe - 2024"],
     [title |-> "AI Art", link |-> "", snippet |-> "", summary |-> ""]}

\* arXiv entries as parseArxivEntries returns them
ArxivEntries ==
    {[title |-> DesignStudio, summary |-> "", published |-> "2026-10-01T00:00:00Z",
      id |-> "http://arxiv.org/abs/2610.1", doi |-> ""],
     [title |-> LaborTools, summary |-> "", published |-> "2025-01-15T00:00:00Z",
      id |-> "http://arxiv.org/abs/2501.2", doi |-> "10.1/a"],
     [title |-> AiLabor, summary |-> "", published |-> "",
      id |-> "http://arxiv.org/abs/2501.3", doi |-> ""]}

\* what the stores hold when a discovery run starts: the bodies the catalogue
\* reference, the Shortlist entry and the dismissed record were made from
StoredReferenceInputs ==
    {[doi |-> "10.1/A", title |-> AiLabor, url |-> ""],
     [doi |-> "", title |-> "Old Title", url |-> "https://doi.org/10.1/b"],
     [doi |-> PageUrl, title |-> DesignStudio, url |-> PageUrl]}
StoredShortlistInputs ==
    {[doi |-> PageUrl, title |-> LaborTools, url |-> PageUrl]}
StoredDismissedInputs ==
    {[doi |-> "10.1/a", title |-> AiLabor, url |-> ""],
     [doi |-> PageUrl, title |-> DesignStudio, url |-> PageUrl]}

DiscoveryTitles == {AiLabor, LaborTools, DesignStudio, MedicalAi, "AI Art"}

\* dismissed titles and candidate titles of the near-duplicate rule
StudiosDismissed == "Generative AI and Creative Labor in Design Studios"
StudiosLong == "Generative AI, Creative Labor and Design Studios: Evidence from Practice"
StudiosEvidence == "Creative Labor and Generative AI: Evidence from Design Studios"
NearDuplicateDismissed == {AiLabor, StudiosDismissed, StudiosLong}
NearDuplicateCandidates ==
    {StudiosEvidence, "Robotics in Manufacturing", DesignStudio, LaborTools,
     "Design Studios in Practice", "Design, Design and Design"}
NearDuplicateTitles == NearDuplicateDismissed \cup NearDuplicateCandidates

\* the results of a long CrossRef answer: result i, dated by its year alone, in
\* March 2026, or in the last four months of 2026
PageTitle(i) == "Generative AI Study " \o ToString(i)
PageDoi(i) == "10.9/" \o ToString(i)
pageItem(i) ==
    [DOI |-> PageDoi(i), title |-> PageTitle(i), abstract |-> "",
     published |-> IF i % 9 = 0 THEN <<>>
                   ELSE IF i % 9 = 4 THEN <<2026, 3, 1 + (i % 28)>>
                   ELSE <<2026, 9 + ((i * 5) % 4), 1 + ((i * 11) % 28)>>,
     created |-> <<2025>>]
\* records as a source may return them: without title, with a short title, a
\* title of digits, a title of digits and hyphens, a placeholder title, a title
GateTitles ==
    {"", "AI Art", "2024. 05. 17", "2024-05-01-17", "Title pending: generative AI",
     "Creative Labor and AI Tools"}
GateDois == {"", "10.1/a", "10.1/g"}
GateAbstracts == {"", "A study of generative AI."}

PageTitles == {PageTitle(i) : i \in 1..(MaxCollected + 1)}
PageDois == {PageDoi(i) : i \in 1..(MaxCollected + 1)}
DiscoveryUrls == {PageUrl, "https://doi.org/10.1/b", "https://doi.org/10.1/B?ref=1"}
DiscoveryDois ==
    {"10.1/b", "10.1/c", "10.1/d", "10.1/A", "abc123", "def456", "ghi789",
     "http://arxiv.org/abs/2610.1", "http://arxiv.org/abs/2501.2",
     "http://arxiv.org/abs/2501.3"}

\* the DOIs and titles a request or a source can carry, raw and normalised
InputStrings ==
    DoiInputs \cup TitleInputs \cup DiscoveryTitles \cup DiscoveryDois \cup DiscoveryUrls
    \cup NearDuplicateTitles \cup PageTitles \cup PageDois \cup GateTitles \cup GateDois
    \cup {extractDoiFromUrl(u) : u \in DiscoveryUrls}
    \cup {afterDoiOrg(u) : u \in DiscoveryUrls}
KnownStrings == InputStrings \cup {normalizeValue(v) : v \in InputStrings}

\* normalizeValue tabulated over the strings of the model
normalized == [v \in KnownStrings |-> normalizeValue(v)]

\* tokenizeText tabulated over the titles of the model
titleTokens ==
    [t \in TitleInputs \cup DiscoveryTitles \cup NearDuplicateTitles \cup PageTitles
           \cup GateTitles |->
        tokenizeText(t)]

\* extractDoiFromUrl tabulated over the links of the model
extractedDois == [u \in DiscoveryUrls \cup {""} |-> extractDoiFromUrl(u)]

\* getIdentifierKeyFromRequest tabulated over the requests of the model
identifierKeys == [r \in RemoveInputs |-> getIdentifierKeyFromRequest(r)]

-----------------------------------------------------------------------------
(* Identity keys, the Shortlist aggregate, the Dismissal records *)

\* newsreader.js getArticleKeys
getArticleKeys(article) ==
    [doiKey |-> normalized[article.doi], titleKey |-> normalized[article.title]]

\* references.js getReferenceKeys
getReferenceKeys(reference) ==
    [doiKey |-> normalized[reference.doi], titleKey |-> normalized[reference.title]]

Range(seq) == {seq[i] : i \in 1..Len(seq)}

\* cosmosClient.js upsertItem on a container held as a set of documents
upsertItem(container, item) == {d \in container : d.id # item.id} \cup {item}

\* cosmosClient.js getItem on the shortlist document: the read value
NoShortlistDoc == [exists |-> FALSE, articles |-> <<>>]

\* a mutant of removeFromShortlistByIdentifierKey: upserts the document even when
\* the filter removed nothing
removeFromShortlistByIdentifierKey_alwaysWrites(doc, identifierKey) ==
    IF identifierKey = "" \/ ~doc.exists THEN [doc |-> doc, wrote |-> FALSE]
    ELSE LET Keep(article) ==
                 /\ ~(getArticleKeys(article).doiKey = identifierKey)
                 /\ ~(getArticleKeys(article).titleKey = identifierKey)
         IN  [doc |-> [doc EXCEPT !.articles = SelectSeq(doc.articles, Keep)], wrote |-> TRUE]

\* newsreader.js removeFromShortlistByIdentifierKey: the document after the call
\* and whether it was written
removeFromShortlistByIdentifierKey(doc, identifierKey) ==
    IF identifierKey = "" \/ ~doc.exists THEN [doc |-> doc, wrote |-> FALSE]
    ELSE LET Keep(article) ==
                 LET keys == getArticleKeys(article)
                 IN  ~(keys.doiKey = identifierKey) /\ ~(keys.titleKey = identifierKey)
             filtered == SelectSeq(doc.articles, Keep)
         IN  IF Len(filtered) # Len(doc.articles)
             THEN [doc |-> [doc EXCEPT !.articles = filtered], wrote |-> TRUE]
             ELSE [doc |-> doc, wrote |-> FALSE]

\* a mutant of removeFromShortlistByKeys: matches on the DOI key only
removeFromShortlistByKeys_doiOnly(doc, doiKey, titleKey) ==
    IF (doiKey = "" /\ titleKey = "") \/ ~doc.exists THEN [doc |-> doc, wrote |-> FALSE]
    ELSE LET Keep(article) ==
                 ~(doiKey # "" /\ getArticleKeys(article).doiKey = doiKey)
             filtered == SelectSeq(doc.articles, Keep)
         IN  IF Len(filtered) # Len(doc.articles)
             THEN [doc |-> [doc EXCEPT !.articles = filtered], wrote |-> TRUE]
             ELSE [doc |-> doc, wrote |-> FALSE]

\* newsreader.js removeFromShortlistByKeys (the dismiss cascade)
removeFromShortlistByKeys(doc, doiKey, titleKey) ==
    IF (doiKey = "" /\ titleKey = "") \/ ~doc.exists THEN [doc |-> doc, wrote |-> FALSE]
    ELSE LET Keep(article) ==
                 LET articleKeys == getArticleKeys(article)
                 IN  /\ ~(doiKey # "" /\ articleKeys.doiKey = doiKey)
                     /\ ~(titleKey # "" /\ articleKeys.titleKey = titleKey)
             filtered == SelectSeq(doc.articles, Keep)
         IN  IF Len(filtered) # Len(doc.articles)
             THEN [doc |-> [doc EXCEPT !.articles = filtered], wrote |-> TRUE]
             ELSE [doc |-> doc, wrote |-> FALSE]

\* a mutant of refRemoveFromShortlistByKeys: matches on the title key only
refRemoveFromShortlistByKeys_titleOnly(doc, doiKey, titleKey) ==
    IF (doiKey = "" /\ titleKey = "") \/ ~doc.exists THEN [doc |-> doc, wrote |-> FALSE]
    ELSE LET Keep(article) ==
                 ~(titleKey # "" /\
                   normalized[Or(article.titleKey, article.title)] = titleKey)
             filtered == SelectSeq(doc.articles, Keep)
         IN  IF Len(filtered) # Len(doc.articles)
             THEN [doc |-> [doc EXCEPT !.articles = filtered], wrote |-> TRUE]
             ELSE [doc |-> doc, wrote |-> FALSE]

\* references.js removeFromShortlistByKeys (the reference create / update cascade)
refRemoveFromShortlistByKeys(doc, doiKey, titleKey) ==
    IF (doiKey = "" /\ titleKey = "") \/ ~doc.exists THEN [doc |-> doc, wrote |-> FALSE]
    ELSE LET Keep(article) ==
                 LET articleDoiKey == normalized[Or(article.doiKey, article.doi)]
                     articleTitleKey == normalized[Or(article.titleKey, article.title)]
                 IN  /\ ~(doiKey # "" /\ articleDoiKey = doiKey)
                     /\ ~(titleKey # "" /\ articleTitleKey = titleKey)
             filtered == SelectSeq(doc.articles, Keep)
         IN  IF Len(filtered) # Len(doc.articles)
             THEN [doc |-> [doc EXCEPT !.articles = filtered], wrote |-> TRUE]
             ELSE [doc |-> doc, wrote |-> FALSE]

\* newsreader.js buildDismissedId: `dismissed_${sha1(base)}`.  SHA-1 is modelled
\* as an injective digest: the digest of a base is written <base>.
dismissedIdBase(doiKey, titleKey) == Or(doiKey, Or(titleKey, "unknown"))

\* a mutant of buildDismissedId: hashes DOI key and title key together
buildDismissedId_bothKeys(doiKey, titleKey) ==
    "dismissed_<" \o doiKey \o "|" \o titleKey \o ">"

buildDismissedId(doiKey, titleKey) ==
    "dismissed_<" \o dismissedIdBase(doiKey, titleKey) \o ">"

\* a mutant of isDismissedArticle: looks at the DOI key only
isDismissedArticle_doiOnly(article, dismissedDois, dismissedTitles) ==
    LET keys == getArticleKeys(article)
    IN  keys.doiKey # "" /\ keys.doiKey \in dismissedDois

\* newsreader.js isDismissedArticle
isDismissedArticle(article, dismissedDois, dismissedTitles) ==
    LET keys == getArticleKeys(article)
    IN  \/ (keys.doiKey # "" /\ keys.doiKey \in dismissedDois)
        \/ (keys.titleKey # "" /\ keys.titleKey \in dismissedTitles)

-----------------------------------------------------------------------------
(* The references container: catalogue references and dismissed records *)

\* newsreader.js loadDismissedSets (the query succeeded)
loadDismissedSets(db) ==
    LET dismissedItems == {d \in db : d.dismissed}
    IN  [dismissedDois |->
             {normalized[Or(item.doiKey, item.doi)] : item \in dismissedItems} \ {""},
         dismissedTitles |->
             {normalized[Or(item.titleKey, item.title)] : item \in dismissedItems} \ {""},
         dismissedTokenSets |->
             {Range(titleTokens[item.title]) : item \in dismissedItems} \ {{}}]

\* newsreader.js loadDismissedSets, the catch branch: the query failed
emptyDismissedSets ==
    [dismissedDois |-> {}, dismissedTitles |-> {}, dismissedTokenSets |-> {}]

Response(op, status, body, list) ==
    [op |-> op, status |-> status, body |-> body, list |-> list]

Outcome(doc, db, n, resp) ==
    [shortlistDoc |-> doc, referencesDb |-> db, nextRefId |-> n, response |-> resp]

\* newsreader.js handleDismissRequest: the record it upserts
dismissedDoc(body) ==
    LET doiKey == normalized[body.doi]
        titleKey == normalized[body.title]
    IN  [id |-> buildDismissedId(doiKey, titleKey), dismissed |-> TRUE,
         doi |-> body.doi, title |-> body.title, url |-> body.url,
         doiKey |-> doiKey, titleKey |-> titleKey]

\* a mutant of handleDismissRequest: the body is not validated
handleDismissRequest_unvalidated(doc, db, n, body) ==
    Outcome(removeFromShortlistByKeys(doc, normalized[body.doi], normalized[body.title]).doc,
            upsertItem(db, dismissedDoc(body)), n,
            Response("dismiss", 200, "success", <<>>))

\* newsreader.js handleDismissRequest / DismissNewsreaderArticle
handleDismissRequest(doc, db, n, body) ==
    IF body.doi = "" /\ body.title = ""
    THEN Outcome(doc, db, n, Response("dismiss", 400, "doi or title required", <<>>))
    ELSE LET doiKey == normalized[body.doi]
             titleKey == normalized[body.title]
         IN  Outcome(removeFromShortlistByKeys(doc, doiKey, titleKey).doc,
                     upsertItem(db, dismissedDoc(body)), n,
                     Response("dismiss", 200, "success", <<>>))

\* newsreader.js GetShortlist
GetShortlist(doc, db, n) ==
    LET dis == loadDismissedSets(db)
        NotDismissed(article) ==
            ~isDismissedArticle(article, dis.dismissedDois, dis.dismissedTitles)
    IN  Outcome(doc, db, n,
                Response("list", 200, "list", SelectSeq(doc.articles, NotDismissed)))

\* newsreader.js RemoveFromShortlist / RemoveFromShortlistByQuery
RemoveFromShortlist(doc, db, n, request) ==
    LET identifierKey == identifierKeys[request]
    IN  IF identifierKey = ""
        THEN Outcome(doc, db, n, Response("remove", 400, "identifier required", <<>>))
        ELSE Outcome(removeFromShortlistByIdentifierKey(doc, identifierKey).doc, db, n,
                     Response("remove", 200, "success", <<>>))

\* newsreader.js AddToShortlist: the entry it pushes
shortlistEntry(article) ==
    LET keys == getArticleKeys(article)
    IN  [doi |-> article.doi, title |-> article.title, url |-> article.url,
         doiKey |-> keys.doiKey, titleKey |-> keys.titleKey]

\* newsreader.js AddToShortlist, lines 318-321: some entry has one of the keys
existsInShortlist(articles, doiKey, titleKey) ==
    \E i \in 1..Len(articles) :
        LET keys == getArticleKeys(articles[i])
        IN  \/ (doiKey # "" /\ keys.doiKey = doiKey)
            \/ (titleKey # "" /\ keys.titleKey = titleKey)

\* newsreader.js AddToShortlist, given the dismissed sets it loaded
addToShortlistWith(doc, db, n, article, dis) ==
    IF article.title = ""
    THEN Outcome(doc, db, n, Response("add", 400, "Article title required", <<>>))
    ELSE IF isDismissedArticle(article, dis.dismissedDois, dis.dismissedTitles)
    THEN Outcome(doc, db, n, Response("add", 200, "skipped", <<>>))
    ELSE LET keys == getArticleKeys(article)
             shortlist == IF doc.exists THEN doc ELSE [exists |-> TRUE, articles |-> <<>>]
         IN  IF existsInShortlist(shortlist.articles, keys.doiKey, keys.titleKey)
             THEN Outcome(doc, db, n, Response("add", 200, "success", <<>>))
             ELSE Outcome([shortlist EXCEPT !.articles = Append(@, shortlistEntry(article))],
                          db, n, Response("add", 200, "success", <<>>))

\* newsreader.js AddToShortlist
AddToShortlist(doc, db, n, article) ==
    addToShortlistWith(doc, db, n, article, loadDismissedSets(db))

\* references.js CreateReference: the created document
newReference(n, body) ==
    [id |-> "ref_" \o ToString(n + 1), dismissed |-> FALSE,
     doi |-> body.doi, title |-> body.title, url |-> body.url,
     doiKey |-> "", titleKey |-> ""]

\* references.js CreateReference
CreateReference(doc, db, n, body) ==
    LET created == newReference(n, body)
        keys == getReferenceKeys(created)
    IN  Outcome(refRemoveFromShortlistByKeys(doc, keys.doiKey, keys.titleKey).doc,
                db \cup {created}, n + 1,
                Response("create", 201, created.id, <<>>))

\* references.js UpdateReference, lines 126-131: { ...existing, ...body, id }
\* (a field absent from the body keeps the existing value)
mergedReference(existing, body) ==
    [existing EXCEPT !.doi = IF body.hasDoi THEN body.doi ELSE @,
                     !.title = IF body.hasTitle THEN body.title ELSE @]

\* references.js UpdateReference
UpdateReference(doc, db, n, id, body) ==
    IF ~(\E d \in db : d.id = id)
    THEN Outcome(doc, db, n, Response("update", 404, "Reference not found", <<>>))
    ELSE LET existing == CHOOSE d \in db : d.id = id
             updatedReference == mergedReference(existing, body)
             existingKeys == getReferenceKeys(existing)
             updatedKeys == getReferenceKeys(updatedReference)
             afterOld == refRemoveFromShortlistByKeys(
                             doc, existingKeys.doiKey, existingKeys.titleKey).doc
             afterNew == refRemoveFromShortlistByKeys(
                             afterOld, updatedKeys.doiKey, updatedKeys.titleKey).doc
         IN  Outcome(afterNew, upsertItem(db, updatedReference), n,
                     Response("update", 200, id, <<>>))

\* a mutant of DeleteReference: cascades to the Shortlist as create and update do
DeleteReference_cascading(doc, db, n, id) ==
    IF ~(\E d \in db : d.id = id)
    THEN Outcome(doc, db, n, Response("delete", 500, "Failed to delete reference", <<>>))
    ELSE LET existing == CHOOSE d \in db : d.id = id
             keys == getReferenceKeys(existing)
         IN  Outcome(refRemoveFromShortlistByKeys(doc, keys.doiKey, keys.titleKey).doc,
                     {d \in db : d.id # id}, n,
                     Response("delete", 200, "Reference deleted", <<>>))

\* references.js DeleteReference
DeleteReference(doc, db, n, id) ==
    IF ~(\E d \in db : d.id = id)
    THEN Outcome(doc, db, n, Response("delete", 500, "Failed to delete reference", <<>>))
    ELSE Outcome(doc, {d \in db : d.id # id}, n,
                 Response("delete", 200, "Reference deleted", <<>>))

-----------------------------------------------------------------------------
(* Requests, one at a time *)

ReferenceIds == {"ref_" \o ToString(i) : i \in 1..(MaxRefs + 1)}

NoResponse == Response("", 0, "", <<>>)
NoGhost == [requests |-> 0, removed |-> 0, dismissedDoiKeys |-> {}, dismissedTitleKeys |-> {}, bases |-> {}, added |-> {}]
NoReqs == <<>>
NoRun == [phase |-> "idle"]

Dismissed(db) == {d \in db : d.dismissed}
Catalogue(db) == {d \in db : ~d.dismissed}

Init ==
    /\ shortlistDoc = NoShortlistDoc
    /\ referencesDb = {}
    /\ nextRefId = 0
    /\ response = NoResponse
    /\ ghost = NoGhost
    /\ reqs = NoReqs
    /\ run = NoRun

\* history: one more request served, and how many entries it took off the Shortlist
Counted(o) ==
    [ghost EXCEPT !.requests = @ + 1,
                  !.removed = IF Len(o.shortlistDoc.articles) < Len(shortlistDoc.articles)
                              THEN Len(shortlistDoc.articles) - Len(o.shortlistDoc.articles)
                              ELSE 0]

\* the store and the response after a request
Apply(o) ==
    /\ ghost.requests < MaxRequests
    /\ shortlistDoc' = o.shortlistDoc
    /\ referencesDb' = o.referencesDb
    /\ nextRefId' = o.nextRefId
    /\ response' = o.response

AddRequest ==
    \E article \in ArticleInputs :
        LET o == AddToShortlist(shortlistDoc, referencesDb, nextRefId, article)
        IN  /\ Len(o.shortlistDoc.articles) <= MaxShortlist
            /\ Apply(o)
            /\ ghost' = Counted(o)
        /\ UNCHANGED <<reqs, run>>

RemoveRequest ==
    \E request \in RemoveInputs :
        LET o == RemoveFromShortlist(shortlistDoc, referencesDb, nextRefId, request)
        IN  /\ Apply(o)
            /\ ghost' = Counted(o)
        /\ UNCHANGED <<reqs, run>>

DismissRequest ==
    \E body \in ArticleInputs :
        LET o == handleDismissRequest(shortlistDoc, referencesDb, nextRefId, body)
            doiKey == normalized[body.doi]
            titleKey == normalized[body.title]
        IN  /\ Cardinality(Dismissed(o.referencesDb)) <= MaxDismissals
            /\ Apply(o)
            /\ ghost' = IF o.response.status = 200
                        THEN [Counted(o) EXCEPT
                                 !.dismissedDoiKeys = (@ \cup {doiKey}) \ {""},
                                 !.dismissedTitleKeys = (@ \cup {titleKey}) \ {""},
                                 !.bases = @ \cup {dismissedIdBase(doiKey, titleKey)}]
                        ELSE Counted(o)
            /\ UNCHANGED <<reqs, run>>

GetShortlistRequest ==
    LET o == GetShortlist(shortlistDoc, referencesDb, nextRefId)
    IN  /\ Apply(o)
        /\ ghost' = Counted(o)
        /\ UNCHANGED <<reqs, run>>

CreateReferenceRequest ==
    \E body \in ArticleInputs :
        LET o == CreateReference(shortlistDoc, referencesDb, nextRefId, body)
        IN  /\ nextRefId < MaxRefs
            /\ Apply(o)
            /\ ghost' = Counted(o)
        /\ UNCHANGED <<reqs, run>>

\* the catalogue's clients address the references they were given by GetReferences
\* (which hides the dismissed records) or by CreateReference
UpdateReferenceRequest ==
    \E id \in ReferenceIds, body \in UpdateInputs :
        LET o == UpdateReference(shortlistDoc, referencesDb, nextRefId, id, body)
        IN  /\ Apply(o)
            /\ ghost' = Counted(o)
        /\ UNCHANGED <<reqs, run>>

DeleteReferenceRequest ==
    \E id \in ReferenceIds :
        LET o == DeleteReference(shortlistDoc, referencesDb, nextRefId, id)
        IN  /\ Apply(o)
            /\ ghost' = Counted(o)
        /\ UNCHANGED <<reqs, run>>

Next ==
    \/ AddRequest
    \/ RemoveRequest
    \/ DismissRequest
    \/ GetShortlistRequest
    \/ CreateReferenceRequest
    \/ UpdateReferenceRequest
    \/ DeleteReferenceRequest

Spec == Init /\ [][Next]_vars

-----------------------------------------------------------------------------
(* Concurrent requests: every await on the store is a step of its own *)

\* the function instances serving requests at the same time
Slots == {"s1", "s2"}

\* the requests of the concurrent model
ConcArticleInputs ==
    {[doi |-> "10.1/a", title |-> "Old Title", url |-> ""],
     [doi |-> " 10.1/A ", title |-> "New Title", url |-> ""],
     [doi |-> "", title |-> "Old Title", url |-> ""],
     [doi |-> "", title |-> " ", url |-> ""],
     [doi |-> "", title |-> "", url |-> ""]}
ConcRemoveInputs ==
    {[params |-> "10.1%2FA", query |-> "", body |-> ""],
     [params |-> "", query |-> "", body |-> ""]}

NoArticle == [doi |-> "", title |-> "", url |-> ""]
NoRequest == [params |-> "", query |-> "", body |-> ""]
Idle == [op |-> "idle", pc |-> "idle", article |-> NoArticle, request |-> NoRequest,
         doc |-> NoShortlistDoc]

InitConc ==
    /\ shortlistDoc = NoShortlistDoc
    /\ referencesDb = {}
    /\ nextRefId = 0
    /\ response = NoResponse
    /\ ghost = NoGhost
    /\ reqs = [s \in Slots |-> Idle]
    /\ run = NoRun

\* the request of slot s returns resp
Return(s, resp) ==
    /\ response' = resp
    /\ reqs' = [reqs EXCEPT ![s] = Idle]

\* the request of slot s moves on to its next store access
Goto(s, pc, doc) == reqs' = [reqs EXCEPT ![s].pc = pc, ![s].doc = doc]

Started == [ghost EXCEPT !.requests = @ + 1, !.removed = 0]

\* a request arrives; what precedes its first store access runs at once
ReceiveAdd(s) ==
    \E article \in ConcArticleInputs :
        /\ reqs[s].op = "idle" /\ ghost.requests < MaxRequests
        /\ ghost' = Started
        /\ IF article.title = ""
           THEN Return(s, Response("add", 400, "Article title required", <<>>))
           ELSE /\ reqs' = [reqs EXCEPT ![s] = [Idle EXCEPT !.op = "add",
                                                  !.pc = "loadDismissedSets",
                                                  !.article = article]]
                /\ UNCHANGED response
        /\ UNCHANGED <<shortlistDoc, referencesDb, nextRefId, run>>

\* AddToShortlist, line 304: await loadDismissedSets
AddLoadDismissed(s) ==
    /\ reqs[s].op = "add" /\ reqs[s].pc = "loadDismissedSets"
    /\ LET dis == loadDismissedSets(referencesDb)
       IN  IF isDismissedArticle(reqs[s].article, dis.dismissedDois, dis.dismissedTitles)
           THEN Return(s, Response("add", 200, "skipped", <<>>))
           ELSE Goto(s, "getItem", NoShortlistDoc) /\ UNCHANGED response
    /\ UNCHANGED <<shortlistDoc, referencesDb, nextRefId, ghost, run>>

\* AddToShortlist, line 313: await getItem, then the exists test and the push
AddGetItem(s) ==
    /\ reqs[s].op = "add" /\ reqs[s].pc = "getItem"
    /\ LET o == addToShortlistWith(shortlistDoc, referencesDb, nextRefId,
                                   reqs[s].article, emptyDismissedSets)
       IN  IF o.shortlistDoc = shortlistDoc
           THEN Return(s, o.response)
           ELSE /\ Len(o.shortlistDoc.articles) <= MaxShortlist
                /\ Goto(s, "upsertItem", o.shortlistDoc) /\ UNCHANGED response
    /\ UNCHANGED <<shortlistDoc, referencesDb, nextRefId, ghost, run>>

\* a mutant of AddUpsert: the write applies the push to the document stored now
AddUpsert_merge(s) ==
    /\ reqs[s].op = "add" /\ reqs[s].pc = "upsertItem"
    /\ shortlistDoc' = addToShortlistWith(shortlistDoc, referencesDb, nextRefId,
                                          reqs[s].article, emptyDismissedSets).shortlistDoc
    /\ Return(s, Response("add", 200, "success", <<>>))
    /\ ghost' = [ghost EXCEPT !.added = @ \cup {reqs[s].article}]
    /\ UNCHANGED <<referencesDb, nextRefId, run>>

\* AddToShortlist, line 330: await upsertItem
AddUpsert(s) ==
    /\ reqs[s].op = "add" /\ reqs[s].pc = "upsertItem"
    /\ shortlistDoc' = reqs[s].doc
    /\ Return(s, Response("add", 200, "success", <<>>))
    /\ ghost' = [ghost EXCEPT !.added = @ \cup {reqs[s].article}]
    /\ UNCHANGED <<referencesDb, nextRefId, run>>

ReceiveRemove(s) ==
    \E request \in ConcRemoveInputs :
        /\ reqs[s].op = "idle" /\ ghost.requests < MaxRequests
        /\ ghost' = Started
        /\ IF getIdentifierKeyFromRequest(request) = ""
           THEN Return(s, Response("remove", 400, "identifier required", <<>>))
           ELSE /\ reqs' = [reqs EXCEPT ![s] = [Idle EXCEPT !.op = "remove",
                                                  !.pc = "getItem",
                                                  !.request = request]]
                /\ UNCHANGED response
        /\ UNCHANGED <<shortlistDoc, referencesDb, nextRefId, run>>

\* removeFromShortlistByIdentifierKey, line 42: await getItem, then the filter
RemoveGetItem(s) ==
    /\ reqs[s].op = "remove" /\ reqs[s].pc = "getItem"
    /\ LET r == removeFromShortlistByIdentifierKey(
                    shortlistDoc, getIdentifierKeyFromRequest(reqs[s].request))
       IN  IF r.wrote
           THEN Goto(s, "upsertItem", r.doc) /\ UNCHANGED response
           ELSE Return(s, Response("remove", 200, "success", <<>>))
    /\ UNCHANGED <<shortlistDoc, referencesDb, nextRefId, ghost, run>>

\* removeFromShortlistByIdentifierKey, line 54: await upsertItem
RemoveUpsert(s) ==
    /\ reqs[s].op = "remove" /\ reqs[s].pc = "upsertItem"
    /\ shortlistDoc' = reqs[s].doc
    /\ Return(s, Response("remove", 200, "success", <<>>))
    /\ UNCHANGED <<referencesDb, nextRefId, ghost, run>>

ReceiveDismiss(s) ==
    \E body \in ConcArticleInputs :
        /\ reqs[s].op = "idle" /\ ghost.requests < MaxRequests
        /\ ghost' = Started
        /\ IF body.doi = "" /\ body.title = ""
           THEN Return(s, Response("dismiss", 400, "doi or title required", <<>>))
           ELSE /\ reqs' = [reqs EXCEPT ![s] = [Idle EXCEPT !.op = "dismiss",
                                                  !.pc = "upsertDismissed",
                                                  !.article = body]]
                /\ UNCHANGED response
        /\ UNCHANGED <<shortlistDoc, referencesDb, nextRefId, run>>

\* handleDismissRequest, line 211: await upsertItem(REFERENCES_CONTAINER, dismissedDoc)
DismissUpsertRecord(s) ==
    /\ reqs[s].op = "dismiss" /\ reqs[s].pc = "upsertDismissed"
    /\ referencesDb' = upsertItem(referencesDb, dismissedDoc(reqs[s].article))
    /\ Cardinality(Dismissed(referencesDb')) <= MaxDismissals
    /\ Goto(s, "getItem", NoShortlistDoc)
    /\ UNCHANGED <<shortlistDoc, nextRefId, response, ghost, run>>

\* removeFromShortlistByKeys, line 165: await getItem, then the filter
DismissGetItem(s) ==
    /\ reqs[s].op = "dismiss" /\ reqs[s].pc = "getItem"
    /\ LET keys == getArticleKeys(reqs[s].article)
           r == removeFromShortlistByKeys(shortlistDoc, keys.doiKey, keys.titleKey)
       IN  IF r.wrote
           THEN Goto(s, "upsertItem", r.doc) /\ UNCHANGED response
           ELSE Return(s, Response("dismiss", 200, "success", <<>>))
    /\ UNCHANGED <<shortlistDoc, referencesDb, nextRefId, ghost, run>>

\* removeFromShortlistByKeys, line 177: await upsertItem
DismissUpsert(s) ==
    /\ reqs[s].op = "dismiss" /\ reqs[s].pc = "upsertItem"
    /\ shortlistDoc' = reqs[s].doc
    /\ Return(s, Response("dismiss", 200, "success", <<>>))
    /\ UNCHANGED <<referencesDb, nextRefId, ghost, run>>

ReceiveList(s) ==
    /\ reqs[s].op = "idle" /\ ghost.requests < MaxRequests
    /\ ghost' = Started
    /\ reqs' = [reqs EXCEPT ![s] = [Idle EXCEPT !.op = "list", !.pc = "queryItems"]]
    /\ UNCHANGED <<shortlistDoc, referencesDb, nextRefId, response, run>>

\* GetShortlist, line 231: await queryItems (the shortlist document)
ListQuery(s) ==
    /\ reqs[s].op = "list" /\ reqs[s].pc = "queryItems"
    /\ Goto(s, "loadDismissedSets", shortlistDoc)
    /\ UNCHANGED <<shortlistDoc, referencesDb, nextRefId, response, ghost, run>>

\* GetShortlist, line 234: await loadDismissedSets, then the filter
ListLoadDismissed(s) ==
    /\ reqs[s].op = "list" /\ reqs[s].pc = "loadDismissedSets"
    /\ Return(s, GetShortlist(reqs[s].doc, referencesDb, nextRefId).response)
    /\ UNCHANGED <<shortlistDoc, referencesDb, nextRefId, ghost, run>>

NextConc ==
    \E s \in Slots :
        \/ ReceiveAdd(s) \/ AddLoadDismissed(s) \/ AddGetItem(s) \/ AddUpsert(s)
        \/ ReceiveRemove(s) \/ RemoveGetItem(s) \/ RemoveUpsert(s)
        \/ ReceiveDismiss(s) \/ DismissUpsertRecord(s) \/ DismissGetItem(s)
        \/ DismissUpsert(s)
        \/ ReceiveList(s) \/ ListQuery(s) \/ ListLoadDismissed(s)

SpecConc == InitConc /\ [][NextConc]_vars

-----------------------------------------------------------------------------
(* The discovery run (GetNewsreaderArticles): dates and filters *)

\* Dates are day numbers, day 0 being 1 January 2020 (years 1901 .. 2099)
yearStart(year) == 365 * (year - 2020) + ((year - 2017) \div 4)

daysBeforeMonth == <<0, 31, 59, 90, 120, 151, 181, 212, 243, 273, 304, 334>>

\* new Date(year, month - 1, day)
dayNumber(year, month, day) ==
    yearStart(year) + daysBeforeMonth[month] + day - 1
    + (IF month > 2 /\ year % 4 = 0 THEN 1 ELSE 0)

\* new Date('YYYY-MM-DD...') of a well-formed ISO date or timestamp
isoDay(text) ==
    dayNumber(parseInt(SubSeq(text, 1, 4)), parseInt(SubSeq(text, 6, 7)),
              parseInt(SubSeq(text, 9, 10)))

\* new Date(text) is a valid date: of the texts of the model, the ISO dates are
isValidDate(text) ==
    /\ Len(text) >= 10
    /\ \A i \in {1, 2, 3, 4, 6, 7, 9, 10} : IndexIn(CharAt(text, i), DigitChars) > 0
    /\ CharAt(text, 5) = "-" /\ CharAt(text, 8) = "-"

\* Date.prototype.getFullYear
getFullYear(day) == CHOOSE year \in 1901..2099 : yearStart(year) <= day /\ day < yearStart(year + 1)

\* GetNewsreaderArticles, line 517: the time of the run (5 November 2026)
now == [year |-> 2026, day |-> dayNumber(2026, 11, 5)]

\* GetNewsreaderArticles, line 518
ninetyDaysAgo == now.day - 90

RELEVANCE_KEYWORDS ==
    {"artificial intelligence", "AI", "machine learning", "generative", "neural network",
     "deep learning", "GPT", "LLM", "language model", "diffusion", "DALL-E", "Midjourney",
     "ChatGPT", "creative", "creativity", "art", "artist", "design", "designer",
     "music", "writing", "author", "copyright", "intellectual property", "automation",
     "labor", "labour", "work", "worker", "employment", "job", "platform", "gig economy",
     "human-computer", "HCI", "interaction", "co-creation", "collaboration",
     "media", "journalism", "content", "algorithm", "computational", "authorship",
     "creative industries", "cultural industries", "precarity", "deskilling"}

\* the words of isRelevantArticle's offTopicPatterns (/\bword\b/i)
offTopicPatterns ==
    {"healthcare", "medical", "clinical", "patient", "biological", "chemistry",
     "physics", "geology", "agriculture", "farming", "crop", "sports", "athletic",
     "financial", "banking", "stock", "military", "defense", "weapon"}

\* isRelevantArticle on the lower-cased text `${title} ${abstract}`
relevantText(text) ==
    /\ \E kw \in RELEVANCE_KEYWORDS : includes(text, toLowerCase(kw))
    /\ ~(\E word \in offTopicPatterns : hasWord(text, word))

\* GetNewsreaderArticles isRelevantArticle
isRelevantArticle(title, abstract) == relevantText(toLowerCase(title \o " " \o abstract))

DiscoveryAbstracts == {"", "Published 2026."}

\* isRelevantArticle tabulated over the titles and abstracts of the model
relevant ==
    [title \in DiscoveryTitles \cup PageTitles \cup GateTitles |->
        [abstract \in DiscoveryAbstracts \cup GateAbstracts |->
            isRelevantArticle(title, abstract)]]

\* a mutant of requiredMatches: the threshold is not capped at 3
requiredMatches_uncapped(size) ==
    IF (6 * size + 9) \div 10 >= 2 THEN (6 * size + 9) \div 10 ELSE 2

\* isTooSimilarToDismissed, line 532: Math.min(3, Math.max(2, Math.ceil(size * 0.6)))
requiredMatches(size) ==
    IF (6 * size + 9) \div 10 >= 3 THEN 3 ELSE 2

\* GetNewsreaderArticles isTooSimilarToDismissed: every token of the title that
\* the dismissed token set holds counts as a match
isTooSimilarToDismissed(title, dismissedTokenSets) ==
    /\ title # "" /\ dismissedTokenSets # {}
    /\ Len(titleTokens[title]) > 0
    /\ \E tokensSet \in dismissedTokenSets :
           Cardinality({i \in 1..Len(titleTokens[title]) :
                            titleTokens[title][i] \in tokensSet})
               >= requiredMatches(Cardinality(tokensSet))

\* /^[\d\.\s]+$/.test(title)
onlyDigits(title) ==
    /\ title # ""
    /\ \A i \in 1..Len(title) :
           \/ IndexIn(CharAt(title, i), DigitChars) > 0
           \/ CharAt(title, i) = "."
           \/ IsSpaceChar(CharAt(title, i))

\* /^title pending/i.test(title)
titlePending(title) ==
    Len(title) >= 13 /\ toLowerCase(SubSeq(title, 1, 13)) = "title pending"

\* a mutant of existingDOIs: the DOIs are collected as stored, not normalised
existingDOIs_raw(existingRefs, shortlist) ==
    ({afterDoiOrg(r.url) : r \in {r \in existingRefs : includes(r.url, "doi.org")}}
     \cup {r.doi : r \in existingRefs}
     \cup {shortlist[i].doi : i \in 1..Len(shortlist)}) \ {""}

\* GetNewsreaderArticles, lines 430-434
existingDOIs(existingRefs, shortlist) ==
    ({normalized[afterDoiOrg(r.url)] :
          r \in {r \in existingRefs : includes(r.url, "doi.org")}}
     \cup {normalized[r.doi] : r \in existingRefs}
     \cup {normalized[shortlist[i].doi] : i \in 1..Len(shortlist)}) \ {""}

\* GetNewsreaderArticles, lines 435-438
existingTitles(existingRefs, shortlist) ==
    ({normalized[trim(toLowerCase(r.title))] : r \in existingRefs}
     \cup {normalized[trim(toLowerCase(shortlist[i].title))] :
               i \in 1..Len(shortlist)}) \ {""}

\* isValidArticle, lines 552-555: an article collected earlier in the run has
\* one of the keys
alreadyCollected(allArticles, doiKey, titleLower) ==
    \E i \in 1..Len(allArticles) :
        \/ (doiKey # "" /\ getArticleKeys(allArticles[i]).doiKey = doiKey)
        \/ (titleLower # "" /\ getArticleKeys(allArticles[i]).titleKey = titleLower)

\* isValidArticle, lines 547-556, on the keys computed at lines 545-546
validKeys(title, abstract, titleLower, doiKey, ctx) ==
    /\ ~(doiKey # "" /\ doiKey \in ctx.existingDOIs)
    /\ ~(titleLower # "" /\ titleLower \in ctx.existingTitles)
    /\ ~(doiKey # "" /\ doiKey \in ctx.dis.dismissedDois)
    /\ ~(titleLower # "" /\ titleLower \in ctx.dis.dismissedTitles)
    /\ ~isTooSimilarToDismissed(title, ctx.dis.dismissedTokenSets)
    /\ ~alreadyCollected(ctx.allArticles, doiKey, titleLower)
    /\ relevant[title][abstract]

\* GetNewsreaderArticles isValidArticle; ctx is the run it closes over
isValidArticle(title, doi, abstract, ctx) ==
    /\ title # "" /\ Len(title) >= 10
    /\ ~onlyDigits(title)
    /\ ~titlePending(title)
    /\ validKeys(title, abstract, normalized[title], normalized[doi], ctx)

\* the article a source adapter pushes (authors, source, type, category and
\* abstract are carried along unchanged and left out); publishedDate is <<>> for
\* null and <<day>> for the ISO timestamp of that day
Article(doi, title, year, url, isNew, publishedDate, apiSource, keyed) ==
    [doi |-> doi, title |-> title, year |-> ToString(year), url |-> url,
     isNew |-> isNew, publishedDate |-> publishedDate, apiSource |-> apiSource,
     doiKey |-> normalized[keyed], titleKey |-> normalized[title]]

\* the date-parts [year, month = 1, day = 1] as a date
datePartsDay(dateParts) ==
    dayNumber(dateParts[1],
              IF Len(dateParts) >= 2 THEN dateParts[2] ELSE 1,
              IF Len(dateParts) >= 3 THEN dateParts[3] ELSE 1)

\* GetNewsreaderArticles parseYear (published stands for published,
\* published-print and published-online); 0 stands for null
yearOfParts(dateParts) ==
    IF dateParts # <<>> /\ dateParts[1] >= 1900 /\ dateParts[1] <= now.year + 1
    THEN dateParts[1] ELSE 0

parseYear(item) ==
    yearOfParts(IF item.published # <<>> THEN item.published ELSE item.created)

\* GetNewsreaderArticles getPublishedDate
getPublishedDate(item) ==
    IF item.published # <<>> THEN <<datePartsDay(item.published)>> ELSE <<>>

\* `pubDate && pubDate >= ninetyDaysAgo`
isRecent(pubDate) == pubDate # <<>> /\ pubDate[1] >= ninetyDaysAgo

\* CrossRef adapter, lines 616-631
crossRefArticle(item) ==
    Article(item.DOI, item.title, parseYear(item),
            IF item.DOI # "" THEN "https://doi.org/" \o item.DOI ELSE "",
            isRecent(getPublishedDate(item)), getPublishedDate(item),
            "CrossRef", item.DOI)

\* `paper.publicationDate ? new Date(paper.publicationDate) : null`
dateOrNull(text) == IF text # "" THEN <<isoDay(text)>> ELSE <<>>

\* lines 656 and 672: pubDate is an Invalid Date, whose toISOString() throws
toISOStringThrows(paper) ==
    paper.publicationDate # "" /\ ~isValidDate(paper.publicationDate)

\* Semantic Scholar adapter, lines 661-676
semanticScholarArticle(paper) ==
    Article(Or(paper.DOI, paper.paperId), paper.title, paper.year,
            IF paper.DOI # "" THEN "https://doi.org/" \o paper.DOI
            ELSE "https://www.semanticscholar.org/paper/" \o paper.paperId,
            isRecent(dateOrNull(paper.publicationDate)),
            dateOrNull(paper.publicationDate),
            "Semantic Scholar", Or(paper.DOI, paper.paperId))

\* Google Scholar adapter, line 699
googleScholarYear(item) ==
    IF parseYearFromText(item.summary) # 0 THEN parseYearFromText(item.summary)
    ELSE parseYearFromText(item.snippet)

\* Google Scholar adapter, lines 702-717
googleScholarArticle(item) ==
    Article(Or(extractedDois[item.link], item.link), item.title,
            googleScholarYear(item), item.link,
            googleScholarYear(item) >= now.year - 1, <<>>,
            "Google Scholar (SerpAPI)", Or(extractedDois[item.link], item.link))

\* arXiv adapter, line 742; 0 stands for null
arxivYear(entry) ==
    IF entry.published # "" THEN getFullYear(isoDay(entry.published)) ELSE 0

\* arXiv adapter, lines 747-762
arxivArticle(entry) ==
    Article(Or(entry.doi, entry.id), entry.title, arxivYear(entry),
            Or(entry.id, IF entry.doi # "" THEN "https://doi.org/" \o entry.doi ELSE ""),
            isRecent(dateOrNull(entry.published)), dateOrNull(entry.published),
            "arXiv", Or(entry.doi, entry.id))

\* the source adapters tabulated over the results of the model
crossRefYears == [item \in CrossRefItems |-> parseYear(item)]
crossRefArticles == [item \in CrossRefItems |-> crossRefArticle(item)]
semanticScholarArticles ==
    [paper \in {p \in SemanticScholarItems : toISOStringThrows(p) = FALSE} |->
        semanticScholarArticle(paper)]
googleScholarYears == [item \in GoogleScholarItems |-> googleScholarYear(item)]
googleScholarArticles == [item \in GoogleScholarItems |-> googleScholarArticle(item)]
arxivYears == [entry \in ArxivEntries |-> arxivYear(entry)]
arxivArticles == [entry \in ArxivEntries |-> arxivArticle(entry)]

\* lines 768-772: the date an article is sorted by
sortDate(a) ==
    IF a.publishedDate # <<>> THEN a.publishedDate[1] ELSE yearStart(parseInt(a.year))

\* a mutant of slice30: the list is not cut
slice30_all(list) == list

\* a mutant of insertByDate: the articles stay in the order of collection
insertByDate_append(sorted, a) == Append(sorted, a)

\* Array.prototype.sort with (a, b) => dateB - dateA: stable, newest first
insertByDate(sorted, a) ==
    SubSeq(sorted, 1, Cardinality({i \in 1..Len(sorted) : sortDate(sorted[i]) >= sortDate(a)}))
    \o <<a>>
    \o SubSeq(sorted, 1 + Cardinality({i \in 1..Len(sorted) :
                                           sortDate(sorted[i]) >= sortDate(a)}),
              Len(sorted))

RECURSIVE sortByDate(_)
sortByDate(articles) ==
    IF articles = <<>> THEN <<>>
    ELSE insertByDate(sortByDate(SubSeq(articles, 1, Len(articles) - 1)),
                      articles[Len(articles)])

\* lines 774-784: the only-new filter, the dismissed filter and slice(0, 30)
filteredResults(results, filterNew, dis) ==
    LET Kept(a) ==
            /\ (filterNew => a.isNew)
            /\ ~isDismissedArticle(a, dis.dismissedDois, dis.dismissedTitles)
    IN  SelectSeq(results, Kept)

slice30(list) == SubSeq(list, 1, IF Len(list) < 30 THEN Len(list) ELSE 30)

-----------------------------------------------------------------------------
(* The discovery run, one source result at a time *)

\* the stores a run can find: at most one catalogue reference, one Shortlist
\* entry and one dismissed record, the entry not being a dismissed one
StoredReferences == {{}} \cup {{newReference(0, body)} : body \in StoredReferenceInputs}
StoredDismissed == {{}} \cup {{dismissedDoc(body)} : body \in StoredDismissedInputs}
StoredShortlists ==
    {NoShortlistDoc}
    \cup {[exists |-> TRUE, articles |-> <<shortlistEntry(body)>>] :
              body \in StoredShortlistInputs}

InitDiscover ==
    /\ \E refs \in StoredReferences, dismissed \in StoredDismissed :
           /\ referencesDb = refs \cup dismissed
           /\ nextRefId = Cardinality(refs)
    /\ shortlistDoc \in StoredShortlists
    /\ \A i \in 1..Len(shortlistDoc.articles) :
           ~isDismissedArticle(shortlistDoc.articles[i],
                               loadDismissedSets(referencesDb).dismissedDois,
                               loadDismissedSets(referencesDb).dismissedTitles)
    /\ response = NoResponse
    /\ ghost = NoGhost
    /\ reqs = NoReqs
    /\ run = NoRun

NoCandidate == [title |-> "", doi |-> "", abstract |-> "", valid |-> FALSE, failed |-> FALSE]

\* lines 411-438: the request's filter, the provider key, and the three loads,
\* each of which leaves its collection empty when the store call fails
startedRun(filterNew, serpApiKey, loaded, existingRefs, shortlist, dis) ==
    [phase |-> "CrossRef", filterNew |-> filterNew, serpApiKey |-> serpApiKey,
     loaded |-> loaded,
     existingDOIs |-> existingDOIs(existingRefs, shortlist),
     existingTitles |-> existingTitles(existingRefs, shortlist),
     dis |-> dis, allArticles |-> <<>>, last |-> NoCandidate, kept |-> {}]

StartRun ==
    /\ run.phase = "idle"
    /\ \E filterNew, serpApiKey, refsLoaded, shortlistLoaded, dismissedLoaded \in BOOLEAN :
           run' = startedRun(filterNew, serpApiKey,
                             [references |-> refsLoaded, shortlist |-> shortlistLoaded,
                              dismissed |-> dismissedLoaded],
                             IF refsLoaded THEN referencesDb ELSE {},
                             IF shortlistLoaded THEN shortlistDoc.articles ELSE <<>>,
                             IF dismissedLoaded THEN loadDismissedSets(referencesDb)
                             ELSE emptyDismissedSets)
    /\ UNCHANGED <<shortlistDoc, referencesDb, nextRefId, response, reqs, ghost>>

\* one result of a source: isValidArticle, the year window, the push
examined(ctx, title, doi, abstract, valid) ==
    [ctx EXCEPT !.last = [title |-> title, doi |-> doi, abstract |-> abstract,
                          valid |-> valid, failed |-> FALSE]]

CollectUpTo(limit, title, doi, abstract, year, firstYear, article) ==
    /\ run' = IF isValidArticle(title, doi, abstract, run)
              THEN IF year = 0 \/ year < firstYear \/ year > 2026
                   THEN examined(run, title, doi, abstract, TRUE)
                   ELSE [examined(run, title, doi, abstract, TRUE)
                            EXCEPT !.allArticles = Append(@, article)]
              ELSE examined(run, title, doi, abstract, FALSE)
    /\ Len(run'.allArticles) <= limit
    /\ UNCHANGED <<shortlistDoc, referencesDb, nextRefId, response, reqs, ghost>>

Collect(title, doi, abstract, year, firstYear, article) ==
    CollectUpTo(MaxItems, title, doi, abstract, year, firstYear, article)

\* lines 593-632
CrossRefResult ==
    /\ run.phase = "CrossRef"
    /\ \E item \in CrossRefItems :
           Collect(item.title, item.DOI, item.abstract, crossRefYears[item], 2020,
                   crossRefArticles[item])

\* the articles the query under way has pushed: some last ones among those of
\* the source whose queries are running, none of them of a query that failed
pushedByQuery(ctx, apiSource) ==
    {pushed \in SUBSET (Range(ctx.allArticles) \ ctx.kept) :
        \E k \in 0..Len(ctx.allArticles) :
            /\ pushed = {ctx.allArticles[i] : i \in (Len(ctx.allArticles) - k + 1)..Len(ctx.allArticles)}
            /\ \A a \in pushed : a.apiSource = apiSource}

\* lines 672 and 678: the object literal of the push throws, the catch ends the
\* query; what the query pushed before stays in allArticles
Throws(title, doi, abstract, apiSource) ==
    /\ \E pushed \in pushedByQuery(run, apiSource) :
           run' = [run EXCEPT !.last = [title |-> title, doi |-> doi, abstract |-> abstract,
                                        valid |-> TRUE, failed |-> TRUE],
                              !.kept = @ \cup pushed]
    /\ UNCHANGED <<shortlistDoc, referencesDb, nextRefId, response, reqs, ghost>>

\* lines 647-677
SemanticScholarResult ==
    /\ run.phase = "Semantic Scholar"
    /\ \E paper \in SemanticScholarItems :
           IF /\ toISOStringThrows(paper)
              /\ isValidArticle(paper.title, Or(paper.DOI, paper.paperId), paper.abstract, run)
              /\ paper.year >= 2023 /\ paper.year <= 2026
           THEN Throws(paper.title, Or(paper.DOI, paper.paperId), paper.abstract,
                       "Semantic Scholar")
           ELSE Collect(paper.title, Or(paper.DOI, paper.paperId), paper.abstract,
                        paper.year, 2023,
                        IF toISOStringThrows(paper) THEN NoArticle
                        ELSE semanticScholarArticles[paper])

\* lines 586-591, 633 and alike: the fetch of a query fails, its response is not
\* OK or its body does not parse; the query ends before its loop
QueryFails ==
    /\ run.phase \in {"CrossRef", "Semantic Scholar", "Google Scholar", "arXiv"}
    /\ run.phase = "Google Scholar" => run.serpApiKey
    /\ run' = [run EXCEPT !.last = [NoCandidate EXCEPT !.failed = TRUE]]
    /\ UNCHANGED <<shortlistDoc, referencesDb, nextRefId, response, reqs, ghost>>

\* lines 691-718, when SERPAPI_API_KEY is set
GoogleScholarResult ==
    /\ run.phase = "Google Scholar" /\ run.serpApiKey
    /\ \E item \in GoogleScholarItems :
           Collect(item.title, Or(extractedDois[item.link], item.title), item.snippet,
                   googleScholarYears[item], 2020, googleScholarArticles[item])

\* lines 735-763
ArxivResult ==
    /\ run.phase = "arXiv"
    /\ \E entry \in ArxivEntries :
           Collect(entry.title, Or(entry.doi, entry.id), entry.summary,
                   arxivYears[entry], 2020, arxivArticles[entry])

\* the loop over a source's queries ends (a failed query adds nothing)
NextSource ==
    /\ run.phase \in {"CrossRef", "Semantic Scholar", "Google Scholar"}
    /\ run' = [run EXCEPT !.phase = CASE @ = "CrossRef" -> "Semantic Scholar"
                                      [] @ = "Semantic Scholar" -> "Google Scholar"
                                      [] @ = "Google Scholar" -> "arXiv"]
    /\ UNCHANGED <<shortlistDoc, referencesDb, nextRefId, response, reqs, ghost>>

\* lines 768-785
ReturnArticles ==
    /\ run.phase = "arXiv"
    /\ run' = [run EXCEPT !.phase = "done"]
    /\ response' = Response("articles", 200, "articles",
                            slice30(filteredResults(sortByDate(run.allArticles),
                                                    run.filterNew, run.dis)))
    /\ UNCHANGED <<shortlistDoc, referencesDb, nextRefId, reqs, ghost>>

NextDiscover ==
    \/ StartRun
    \/ CrossRefResult
    \/ SemanticScholarResult
    \/ GoogleScholarResult
    \/ ArxivResult
    \/ QueryFails
    \/ NextSource
    \/ ReturnArticles

SpecDiscover == InitDiscover /\ [][NextDiscover]_vars

-----------------------------------------------------------------------------
(* A run in which CrossRef answers with more results than the run returns *)

InitAssemble ==
    /\ shortlistDoc = NoShortlistDoc
    /\ referencesDb = {}
    /\ nextRefId = 0
    /\ response = NoResponse
    /\ ghost = NoGhost
    /\ reqs = NoReqs
    /\ run = NoRun

\* lines 593-632 for one item
CollectItem(limit, item) ==
    CollectUpTo(limit, item.title, item.DOI, item.abstract, parseYear(item), 2020,
                crossRefArticle(item))

\* the next result of the CrossRef answer
CrossRefPage ==
    /\ run.phase = "CrossRef"
    /\ Len(run.allArticles) < MaxCollected
    /\ CollectItem(MaxCollected, pageItem(Len(run.allArticles) + 1))

NextAssemble == StartRun \/ CrossRefPage \/ NextSource \/ ReturnArticles

SpecAssemble == InitAssemble /\ [][NextAssemble]_vars

-----------------------------------------------------------------------------
(* The near-duplicate rule on its own: dismissed titles, then candidate titles *)

\* the Dismissal records of up to three dismissed titles, as dismiss stores them
InitNearDuplicate ==
    /\ \E titles \in SUBSET NearDuplicateDismissed :
           referencesDb = {dismissedDoc([doi |-> "", title |-> t, url |-> ""]) : t \in titles}
    /\ shortlistDoc = NoShortlistDoc
    /\ nextRefId = 0
    /\ response = NoResponse
    /\ ghost = NoGhost
    /\ reqs = NoReqs
    /\ run = NoRun

\* line 429: loadDismissedSets, which yields empty sets when the query fails
LoadDismissedTitles ==
    /\ run.phase = "idle"
    /\ \E loaded \in BOOLEAN :
           run' = [phase |-> "loaded", loaded |-> loaded,
                   dis |-> IF loaded THEN loadDismissedSets(referencesDb)
                           ELSE emptyDismissedSets,
                   last |-> [title |-> "", similar |-> FALSE]]
    /\ UNCHANGED <<shortlistDoc, referencesDb, nextRefId, response, reqs, ghost>>

\* line 551: isTooSimilarToDismissed(title)
CheckTitle ==
    /\ run.phase \in {"loaded", "checked"}
    /\ \E title \in NearDuplicateCandidates :
           run' = [run EXCEPT
                      !.phase = "checked",
                      !.last = [title |-> title,
                                similar |-> isTooSimilarToDismissed(
                                                title, run.dis.dismissedTokenSets)]]
    /\ UNCHANGED <<shortlistDoc, referencesDb, nextRefId, response, reqs, ghost>>

NextNearDuplicate == LoadDismissedTitles \/ CheckTitle

SpecNearDuplicate == InitNearDuplicate /\ [][NextNearDuplicate]_vars

-----------------------------------------------------------------------------
(* Requests served one at a time while a store may be unreachable *)

\* which stores answer during a request: the references container, which holds
\* the dismissed records, and the shortlist container
StoreStates == [dismissal : BOOLEAN, shortlist : BOOLEAN]

\* the catch of a handler, lines 338-345, 276-283, 372-379, 392-399
failed(op, doc, db, n, message) == Outcome(doc, db, n, Response(op, 500, message, <<>>))

\* AddToShortlist: loadDismissedSets yields empty sets when its query fails (lines
\* 156-159); getItem and upsertItem throw into the handler's catch
addToShortlistDuring(doc, db, n, article, up) ==
    IF /\ article.title # ""
       /\ ~isDismissedArticle(article,
               (IF up.dismissal THEN loadDismissedSets(db) ELSE emptyDismissedSets).dismissedDois,
               (IF up.dismissal THEN loadDismissedSets(db) ELSE emptyDismissedSets).dismissedTitles)
       /\ ~up.shortlist
    THEN failed("add", doc, db, n, "Failed to add to shortlist")
    ELSE addToShortlistWith(doc, db, n, article,
             IF up.dismissal THEN loadDismissedSets(db) ELSE emptyDismissedSets)

\* RemoveFromShortlist: getItem of line 42 throws into the handler's catch
removeFromShortlistDuring(doc, db, n, request, up) ==
    IF identifierKeys[request] # "" /\ ~up.shortlist
    THEN failed("remove", doc, db, n, "Failed to remove from shortlist")
    ELSE RemoveFromShortlist(doc, db, n, request)

\* a mutant of dismissDuring: the Shortlist is read before the record is stored
dismissDuring_cascadeFirst(doc, db, n, body, up) ==
    IF body.doi = "" /\ body.title = ""
    THEN handleDismissRequest(doc, db, n, body)
    ELSE IF ~up.dismissal
    THEN failed("dismiss", doc, db, n, "Failed to dismiss article")
    ELSE IF ~up.shortlist /\ (normalized[body.doi] # "" \/ normalized[body.title] # "")
    THEN failed("dismiss", doc, db, n, "Failed to dismiss article")
    ELSE handleDismissRequest(doc, db, n, body)

\* DismissNewsreaderArticle: upsertItem of line 211 throws before anything is
\* stored; getItem of line 165, reached unless both keys are empty (line 164),
\* throws after the record was stored
dismissDuring(doc, db, n, body, up) ==
    IF body.doi = "" /\ body.title = ""
    THEN handleDismissRequest(doc, db, n, body)
    ELSE IF ~up.dismissal
    THEN failed("dismiss", doc, db, n, "Failed to dismiss article")
    ELSE IF ~up.shortlist /\ (normalized[body.doi] # "" \/ normalized[body.title] # "")
    THEN failed("dismiss", doc, upsertItem(db, dismissedDoc(body)), n, "Failed to dismiss article")
    ELSE handleDismissRequest(doc, db, n, body)

InitOutage ==
    /\ shortlistDoc = NoShortlistDoc
    /\ referencesDb = {}
    /\ nextRefId = 0
    /\ response = NoResponse
    /\ ghost = NoGhost
    /\ reqs = NoReqs
    /\ run = NoRun

\* the stores and the response after a request for article (none for a remove)
\* served with the stores in state up
Served(o, up, article) ==
    /\ Len(o.shortlistDoc.articles) <= MaxShortlist
    /\ Cardinality(Dismissed(o.referencesDb)) <= MaxDismissals
    /\ Apply(o)
    /\ ghost' = [ghost EXCEPT !.requests = @ + 1]
    /\ run' = [phase |-> "served", up |-> up, article |-> article]
    /\ UNCHANGED reqs

AddDuringOutage ==
    \E article \in ConcArticleInputs, up \in StoreStates :
        Served(addToShortlistDuring(shortlistDoc, referencesDb, nextRefId, article, up), up, article)

RemoveDuringOutage ==
    \E request \in ConcRemoveInputs, up \in StoreStates :
        Served(removeFromShortlistDuring(shortlistDoc, referencesDb, nextRefId, request, up), up, NoArticle)

DismissDuringOutage ==
    \E body \in ConcArticleInputs, up \in StoreStates :
        Served(dismissDuring(shortlistDoc, referencesDb, nextRefId, body, up), up, body)

NextOutage == AddDuringOutage \/ RemoveDuringOutage \/ DismissDuringOutage

SpecOutage == InitOutage /\ [][NextOutage]_vars

-----------------------------------------------------------------------------
(* normalizeValue on its own: a value, its key, the key of the key *)

\* values that differ in letter case only, grouped; white space put around them
CaseGroups ==
    {{"10.1/A", "10.1/a"}, {"Old Title", "OLD TITLE", "old title"},
     {"DOI/ABC", "doi/abc", "Doi/Abc"}, {"a  B", "A  b"}, {""}}
LeadingSpaces == {"", " ", "\t ", "  "}
TrailingSpaces == {"", " ", " \n"}

InitNormalize ==
    /\ \E group \in CaseGroups, core \in UNION CaseGroups :
           /\ core \in group
           /\ \E lead \in LeadingSpaces, trail \in TrailingSpaces :
                  run = [phase |-> "given", lead |-> lead, core |-> core, trail |-> trail,
                         value |-> lead \o core \o trail, key |-> "", again |-> ""]
    /\ shortlistDoc = NoShortlistDoc
    /\ referencesDb = {}
    /\ nextRefId = 0
    /\ response = NoResponse
    /\ ghost = NoGhost
    /\ reqs = NoReqs

\* getArticleKeys, lines 35-36: normalizeValue of a field
NormalizeField ==
    /\ run.phase = "given"
    /\ run' = [run EXCEPT !.phase = "keyed", !.key = normalizeValue(run.value)]
    /\ UNCHANGED <<shortlistDoc, referencesDb, nextRefId, response, reqs, ghost>>

\* loadDismissedSets, line 145: normalizeValue of a stored key
NormalizeKey ==
    /\ run.phase = "keyed"
    /\ run' = [run EXCEPT !.phase = "rekeyed", !.again = normalizeValue(run.key)]
    /\ UNCHANGED <<shortlistDoc, referencesDb, nextRefId, response, reqs, ghost>>

NextNormalize == NormalizeField \/ NormalizeKey

SpecNormalize == InitNormalize /\ [][NextNormalize]_vars

-----------------------------------------------------------------------------
(* isValidArticle on the records of a source, well-formed or not *)

\* lines 597, 651, 696, 739: isValidArticle on a record; the record is not pushed
ExamineRecord ==
    /\ run.phase = "CrossRef"
    /\ \E title \in GateTitles, doi \in GateDois, abstract \in GateAbstracts :
           run' = examined(run, title, doi, abstract,
                           isValidArticle(title, doi, abstract, run))
    /\ UNCHANGED <<shortlistDoc, referencesDb, nextRefId, response, reqs, ghost>>

NextGate == StartRun \/ ExamineRecord

SpecGate == InitDiscover /\ [][NextGate]_vars

-----------------------------------------------------------------------------
(* The near-duplicate threshold by the size of the dismissed token set *)

\* a dismissed token set of 1 .. MaxTokenSetSize tokens (line 151 keeps no empty
\* set) and the number of the candidate's tokens found in it
InitThreshold ==
    /\ shortlistDoc = NoShortlistDoc
    /\ referencesDb = {}
    /\ nextRefId = 0
    /\ response = NoResponse
    /\ ghost = NoGhost
    /\ reqs = NoReqs
    /\ \E size \in 1..MaxTokenSetSize : \E matches \in 0..size :
           run = [phase |-> "sized", size |-> size, matches |-> matches,
                  required |-> 0, similar |-> FALSE]

\* isTooSimilarToDismissed, line 532: the threshold for this token set
RequireMatches ==
    /\ run.phase = "sized"
    /\ run' = [run EXCEPT !.phase = "required", !.required = requiredMatches(run.size)]
    /\ UNCHANGED <<shortlistDoc, referencesDb, nextRefId, response, ghost, reqs>>

\* isTooSimilarToDismissed, line 537: return matches >= requiredMatches
CompareMatches ==
    /\ run.phase = "required"
    /\ run' = [run EXCEPT !.phase = "compared", !.similar = (run.matches >= run.required)]
    /\ UNCHANGED <<shortlistDoc, referencesDb, nextRefId, response, ghost, reqs>>

NextThreshold == RequireMatches \/ CompareMatches

SpecThreshold == InitThreshold /\ [][NextThreshold]_vars

-----------------------------------------------------------------------------
(* Properties of the stores, requests served one at a time (Spec) *)

Entries == Range(shortlistDoc.articles)

\* entry e carries a non-empty key of the identity <<doiKey, titleKey>>
MatchesKeys(e, doiKey, titleKey) ==
    \/ (doiKey # "" /\ e.doiKey = doiKey)
    \/ (titleKey # "" /\ e.titleKey = titleKey)

\* C1: the stored Shortlist has no two entries with the same non-empty doiKey and
\* no two entries with the same titleKey
C1_ShortlistKeysUnique ==
    \A i, j \in 1..Len(shortlistDoc.articles) :
        i # j =>
            LET a == shortlistDoc.articles[i]
                b == shortlistDoc.articles[j]
            IN  /\ ~(a.doiKey # "" /\ a.doiKey = b.doiKey)
                /\ a.titleKey # b.titleKey

\* C2: no stored Shortlist entry carries a non-empty key of a DismissedRecord
C2_NoDismissedInShortlist ==
    \A e \in Entries, d \in Dismissed(referencesDb) :
        ~MatchesKeys(e, d.doiKey, d.titleKey)

\* C2 witness: a dismiss has returned success after its cascade took an entry off
\* the Shortlist
C2_Witness ==
    /\ response.op = "dismiss" /\ response.status = 200
    /\ ghost.removed >= 1

\* C3: no stored Shortlist entry carries a non-empty key of a reference present
\* in the catalogue
C3_NoReferenceInShortlist ==
    \A e \in Entries, r \in Catalogue(referencesDb) :
        ~MatchesKeys(e, getReferenceKeys(r).doiKey, getReferenceKeys(r).titleKey)

\* C4: addToShortlist of any article that carries a non-empty key of an article
\* dismissed earlier is a success-with-skip that leaves the Shortlist unchanged
C4_DismissedIsTerminal ==
    \A article \in ArticleInputs :
        LET keys == getArticleKeys(article)
            o == AddToShortlist(shortlistDoc, referencesDb, nextRefId, article)
        IN  (/\ article.title # ""
             /\ \/ keys.doiKey \in ghost.dismissedDoiKeys
                \/ keys.titleKey \in ghost.dismissedTitleKeys)
            => (/\ o.response.status = 200 /\ o.response.body = "skipped"
                /\ o.shortlistDoc = shortlistDoc)

\* C5: the Dismissal Store holds exactly one record per id base dismissed so far,
\* hence one record per dismissed doiKey
C5_OneRecordPerIdentity ==
    /\ Cardinality(Dismissed(referencesDb)) = Cardinality(ghost.bases)
    /\ \A base \in ghost.bases :
           Cardinality({d \in Dismissed(referencesDb) :
                            dismissedIdBase(d.doiKey, d.titleKey) = base}) = 1
    /\ \A k \in ghost.dismissedDoiKeys :
           Cardinality({d \in Dismissed(referencesDb) : d.doiKey = k}) = 1

\* C5 witness: two dismissals of one DOI (with different titles), then the
\* literal "unknown" as the id base, left two records
C5_Witness ==
    /\ response.op = "dismiss" /\ response.status = 200
    /\ ghost.requests = 3
    /\ ghost.bases = {"10.1/a", "unknown"}
    /\ ghost.dismissedTitleKeys = {"old title", "new title"}

\* C6: after a reference was created or updated, no stored Shortlist entry carries
\* a non-empty key of the created record, of the pre-update record or of the
\* post-update record
C6_ReferenceCascade ==
    [][(response'.op \in {"create", "update"} /\ response'.status \in {200, 201}) =>
          LET id == response'.body
              after == CHOOSE d \in referencesDb' : d.id = id
              before == IF response'.op = "update"
                        THEN CHOOSE d \in referencesDb : d.id = id ELSE after
          IN  \A e \in Range(shortlistDoc'.articles) :
                  /\ ~MatchesKeys(e, getReferenceKeys(after).doiKey,
                                     getReferenceKeys(after).titleKey)
                  /\ ~MatchesKeys(e, getReferenceKeys(before).doiKey,
                                     getReferenceKeys(before).titleKey)]_vars

\* C6 witness: an update of a reference took two entries off the Shortlist
C6_Witness ==
    /\ response.op = "update" /\ response.status = 200
    /\ ghost.removed = 2

\* the stores and the counter are those before the request
Untouched(o) ==
    /\ o.shortlistDoc = shortlistDoc
    /\ o.referencesDb = referencesDb
    /\ o.nextRefId = nextRefId

\* C17: whatever the stores hold, a dismiss whose body has neither doi nor title
\* and a remove whose request has no identifier in route, query or body are
\* answered 400 and leave the Shortlist and the dismissed records as they were
C17_MissingIdentifierRejected ==
    /\ \A body \in ArticleInputs :
           (body.doi = "" /\ body.title = "") =>
               /\ handleDismissRequest(shortlistDoc, referencesDb, nextRefId, body).response.status = 400
               /\ Untouched(handleDismissRequest(shortlistDoc, referencesDb, nextRefId, body))
    /\ \A request \in RemoveInputs :
           (request.params = "" /\ request.query = "" /\ request.body = "") =>
               /\ RemoveFromShortlist(shortlistDoc, referencesDb, nextRefId, request).response.status = 400
               /\ Untouched(RemoveFromShortlist(shortlistDoc, referencesDb, nextRefId, request))

\* C17 witness: a dismiss without doi and title was answered 400 while the
\* Shortlist held an entry and a dismissed record was stored
C17_Witness ==
    /\ response.op = "dismiss" /\ response.status = 400
    /\ Len(shortlistDoc.articles) > 0
    /\ Dismissed(referencesDb) # {}

\* C18: an add that finds an entry with one of the article's keys and appends
\* nothing is answered differently from the add of the same article that appends
\* it to an empty Shortlist
C18_DuplicateDistinguished ==
    \A article \in ArticleInputs :
        (/\ AddToShortlist(NoShortlistDoc, referencesDb, nextRefId, article).shortlistDoc
                # NoShortlistDoc
         /\ AddToShortlist(shortlistDoc, referencesDb, nextRefId, article).shortlistDoc
                = shortlistDoc)
        => AddToShortlist(shortlistDoc, referencesDb, nextRefId, article).response
               # AddToShortlist(NoShortlistDoc, referencesDb, nextRefId, article).response

\* the normalized keys a removal can be given, the empty key among them
RemovalKeys == {normalized[v] : v \in DoiInputs \cup TitleInputs}

\* the stored entries without those that carry one of the keys, in stored order
WithoutKeys(doiKey, titleKey) ==
    SelectSeq(shortlistDoc.articles, LAMBDA e : ~MatchesKeys(e, doiKey, titleKey))

\* the removal returned the entries of list, and wrote only if it removed some
RemovedExactly(r, list) ==
    /\ r.doc.articles = list
    /\ r.wrote <=> Len(list) < Len(shortlistDoc.articles)
    /\ ~r.wrote => r.doc = shortlistDoc

RECURSIVE IsSubsequence(_, _)
IsSubsequence(s, t) ==
    IF s = <<>> THEN TRUE
    ELSE IF t = <<>> THEN FALSE
    ELSE IF Head(s) = Head(t) THEN IsSubsequence(Tail(s), Tail(t))
    ELSE IsSubsequence(s, Tail(t))

-----------------------------------------------------------------------------
(* Properties of the stores under concurrent requests (SpecConc) *)

\* the entries of the stored Shortlist with a key in common with an earlier entry
RepeatedEntries ==
    {j \in 1..Len(shortlistDoc.articles) :
        \E i \in 1..(j - 1) :
            \/ /\ shortlistDoc.articles[i].doiKey # ""
               /\ shortlistDoc.articles[i].doiKey = shortlistDoc.articles[j].doiKey
            \/ shortlistDoc.articles[i].titleKey = shortlistDoc.articles[j].titleKey}

\* the same, counting only titleKeys that are not empty
RepeatedKeyedEntries ==
    {j \in RepeatedEntries :
        \E i \in 1..(j - 1) :
            \/ /\ shortlistDoc.articles[i].doiKey # ""
               /\ shortlistDoc.articles[i].doiKey = shortlistDoc.articles[j].doiKey
            \/ /\ shortlistDoc.articles[i].titleKey # ""
               /\ shortlistDoc.articles[i].titleKey = shortlistDoc.articles[j].titleKey}

\* C28: however the store accesses of concurrent add, remove, dismiss and
\* reference requests interleave, no stored version of the Shortlist has two
\* entries with the same non-empty doiKey or the same titleKey
C28_UniqueUnderConcurrency == RepeatedEntries = {}

\* under concurrent requests no stored version of the Shortlist has two entries
\* with the same non-empty doiKey or the same non-empty titleKey
UniqueKeyedUnderConcurrency == RepeatedKeyedEntries = {}

\* C7: whenever a GetShortlist request returns after reading the dismissed
\* records, its list is exactly the entries of the Shortlist it read that carry no
\* non-empty doiKey or titleKey of a DismissedRecord, in stored order; this holds
\* in every state the interleaved requests can reach
C7_ListExcludesDismissed ==
    [][\A s \in Slots :
          (reqs[s].op = "list" /\ reqs[s].pc = "loadDismissedSets" /\ reqs'[s] = Idle)
          => LET NotDismissed(e) ==
                     ~(\E d \in Dismissed(referencesDb) :
                           MatchesKeys(e, d.doiKey, d.titleKey))
             IN  /\ response'.op = "list"
                 /\ response'.list = SelectSeq(reqs[s].doc.articles, NotDismissed)]_vars

\* a list has been returned that kept one stored entry and dropped another one,
\* which an add racing a dismiss had left in the Shortlist
C7_Witness ==
    /\ response.op = "list"
    /\ \A s \in Slots : reqs[s] = Idle
    /\ Len(response.list) = 1
    /\ Len(shortlistDoc.articles) = 2
    /\ \E e \in Entries :
           /\ e \notin Range(response.list)
           /\ \E d \in Dismissed(referencesDb) : MatchesKeys(e, d.doiKey, d.titleKey)
    /\ \E e \in Entries :
           /\ e \in Range(response.list)
           /\ ~(\E d \in Dismissed(referencesDb) : MatchesKeys(e, d.doiKey, d.titleKey))

-----------------------------------------------------------------------------
(* Properties of the discovery run (SpecDiscover) *)

SourcePhases == {"CrossRef", "Semantic Scholar", "Google Scholar", "arXiv"}

\* the DOIs a candidate can come with, in several spellings
CandidateDois == {"", "10.1/a", "10.1/A", " 10.1/A ", "10.1/b", "abc123", PageUrl}

\* C8: every article the run returns, whichever source produced it, carries a
\* doiKey and a titleKey that equal no key of a catalogue reference, of a
\* dismissed record or of a Shortlist entry that the run loaded
C8_ReturnedArticlesAreUnknown ==
    run.phase = "done" =>
        \A i \in 1..Len(response.list) :
            /\ run.loaded.references =>
                   \A r \in Catalogue(referencesDb) :
                       ~MatchesKeys(response.list[i], getReferenceKeys(r).doiKey,
                                    getReferenceKeys(r).titleKey)
            /\ run.loaded.dismissed =>
                   \A d \in Dismissed(referencesDb) :
                       ~MatchesKeys(response.list[i], d.doiKey, d.titleKey)
            /\ run.loaded.shortlist =>
                   \A e \in Entries :
                       ~MatchesKeys(response.list[i], e.doiKey, e.titleKey)

\* C9: no two articles the run returns have the same non-empty doiKey or the
\* same titleKey
C9_ReturnedKeysDistinct ==
    run.phase = "done" =>
        \A i, j \in 1..Len(response.list) :
            i # j =>
                /\ ~(response.list[i].doiKey # ""
                     /\ response.list[i].doiKey = response.list[j].doiKey)
                /\ response.list[i].titleKey # response.list[j].titleKey

\* C10: in every context of a run that loaded the references, isValidArticle is
\* false for every candidate whose non-empty normalised DOI equals the
\* normalised DOI of a catalogue reference, whatever its title and abstract
C10_ExistingDoiNeverValid ==
    (run.phase \in SourcePhases /\ run.loaded.references) =>
        \A title \in DiscoveryTitles, doi \in CandidateDois, abstract \in DiscoveryAbstracts :
            (/\ normalized[doi] # ""
             /\ \E r \in Catalogue(referencesDb) : normalized[r.doi] = normalized[doi])
            => ~isValidArticle(title, doi, abstract, run)

\* a source returned a candidate whose DOI is that of a catalogue reference in
\* another spelling; isValidArticle rejected it, and the DOI test is the only
\* one it fails
C10_Witness ==
    /\ run.phase \in SourcePhases /\ run.loaded.references
    /\ run.last.valid = FALSE
    /\ normalized[run.last.doi] # ""
    /\ \E r \in Catalogue(referencesDb) :
           r.doi # run.last.doi /\ normalized[r.doi] = normalized[run.last.doi]
    /\ isValidArticle(run.last.title, run.last.doi, run.last.abstract,
                      [run EXCEPT !.existingDOIs = {}])

\* C12: in a run of two requests, once both have returned, no stored Shortlist
\* entry carries the doiKey or titleKey of a dismissed record, however the store
\* accesses of an add and a dismiss of the same article were interleaved
C12_CascadeHoldsWhenOverlapping ==
    (ghost.requests <= 2 /\ \A s \in Slots : reqs[s] = Idle) =>
        \A e \in Entries, d \in Dismissed(referencesDb) :
            ~MatchesKeys(e, d.doiKey, d.titleKey)

\* C13: every Shortlist write of a mutation is unconditional: the upsertItem step
\* stores the document the request computed from its own earlier read, whatever
\* the store holds by then, and the request reports success
C13_UnconditionalWrite ==
    [][\A s \in Slots :
          (reqs[s].pc = "upsertItem" /\ reqs'[s] = Idle) =>
              /\ shortlistDoc' = reqs[s].doc
              /\ response'.status = 200]_vars

\* C13 witness: a lost update. Two requests ran, both were adds of articles with
\* different keys, both reported success, and the stored Shortlist has one entry
C13_Witness ==
    /\ ghost.requests = 2
    /\ \A s \in Slots : reqs[s] = Idle
    /\ Len(shortlistDoc.articles) = 1
    /\ \E a \in ghost.added, b \in ghost.added :
           /\ getArticleKeys(a).doiKey # getArticleKeys(b).doiKey
           /\ getArticleKeys(a).titleKey # getArticleKeys(b).titleKey

\* the articles collected by the queries that did not fail
collectedByOthers(ctx) == SelectSeq(ctx.allArticles, LAMBDA a : a \notin ctx.kept)

\* C14: whichever queries failed, and whether or not the optional provider is
\* configured, the run succeeds and returns what it would return had the failing
\* queries returned nothing: no article pushed by a failing query is in the merge
C14_FailingQueriesContributeNothing ==
    run.phase = "done" =>
        /\ response.status = 200
        /\ response.list =
               slice30(filteredResults(sortByDate(collectedByOthers(run)),
                                       run.filterNew, run.dis))

\* C15: a run that could not load the existing references fails as a whole: it
\* returns an error status and no list of candidates
C15_ReferenceFeedIsMandatory ==
    (run.phase = "done" /\ ~run.loaded.references) =>
        /\ response.status >= 400
        /\ response.list = <<>>

\* the best-known date of an article: its exact date, or 1 January of its year
BestKnownDate(a) ==
    IF a.publishedDate # <<>> THEN a.publishedDate[1] ELSE dayNumber(parseInt(a.year), 1, 1)

\* C19: in the list a run returns, the best-known date of an article is not
\* earlier than that of the article after it
C19_NewestFirst ==
    run.phase = "done" =>
        \A i \in 1..(Len(response.list) - 1) :
            BestKnownDate(response.list[i]) >= BestKnownDate(response.list[i + 1])

\* C19 witness: a returned article with an exact date stands before one dated by
\* its year alone, which had been collected before it
C19_Witness ==
    /\ run.phase = "done" /\ Len(response.list) >= 2
    /\ response.list[1].publishedDate # <<>>
    /\ response.list[2].publishedDate = <<>>
    /\ BestKnownDate(response.list[1]) > BestKnownDate(response.list[2])
    /\ run.allArticles[1] = response.list[2]

\* C24: a record for which isValidArticle holds is collected: once examined and
\* found valid it is the last article of the run's list
C24_ValidIsCollected ==
    (run.phase \in SourcePhases /\ run.last.valid) =>
        /\ run.allArticles # <<>>
        /\ run.allArticles[Len(run.allArticles)].title = run.last.title

\* C25: a returned article is marked new exactly when its best-known date lies in
\* the 90 days before the time of the run
C25_NewWithinNinetyDays ==
    run.phase = "done" =>
        \A i \in 1..Len(response.list) :
            response.list[i].isNew
            <=> (/\ BestKnownDate(response.list[i]) >= now.day - 90
                 /\ BestKnownDate(response.list[i]) <= now.day)

-----------------------------------------------------------------------------
(* Properties of the cut of the returned list (SpecAssemble) *)

\* the articles of the run that may be returned: none of their keys is dismissed
\* and, when only new articles are asked for, they are new
Admitted ==
    {a \in Range(run.allArticles) :
        /\ ~isDismissedArticle(a, run.dis.dismissedDois, run.dis.dismissedTitles)
        /\ run.filterNew => a.isNew}

\* C20: a run returns at most 30 articles; they are admitted articles, each once,
\* all of them when there are at most 30, else 30 of them, in the order of their
\* dates, and no admitted article left out is newer than a returned one; when only
\* new articles are asked for every returned article is new
C20_First30OfAdmitted ==
    run.phase = "done" =>
        /\ Len(response.list) <= 30
        /\ Range(response.list) \subseteq Admitted
        /\ Cardinality(Range(response.list)) = Len(response.list)
        /\ Len(response.list) = IF Cardinality(Admitted) < 30 THEN Cardinality(Admitted) ELSE 30
        /\ \A i \in 1..(Len(response.list) - 1) :
               BestKnownDate(response.list[i]) >= BestKnownDate(response.list[i + 1])
        /\ \A a \in Admitted \ Range(response.list), b \in Range(response.list) :
               BestKnownDate(b) >= BestKnownDate(a)
        /\ run.filterNew => \A b \in Range(response.list) : b.isNew

\* C20 witness: only new articles were asked for, more than 30 of the collected
\* articles are new, some are not, and 30 are returned
C20_Witness ==
    /\ run.phase = "done" /\ run.filterNew
    /\ Cardinality(Admitted) > 30
    /\ Len(response.list) = 30
    /\ \E a \in Range(run.allArticles) : ~a.isNew

-----------------------------------------------------------------------------
(* Properties of requests served during an outage (SpecOutage) *)

\* a store the served request had to reach did not answer
Unreachable ==
    CASE response'.op = "add" ->
             ~run'.up.dismissal \/ (~run'.up.shortlist /\ response'.body # "skipped")
      [] response'.op = "remove" -> ~run'.up.shortlist
      [] response'.op = "dismiss" ->
             \/ ~run'.up.dismissal
             \/ /\ ~run'.up.shortlist
                /\ (normalized[run'.article.doi] # "" \/ normalized[run'.article.title] # "")
      [] OTHER -> FALSE

\* C16: a request of add, remove or dismiss served while a store it has to reach
\* is unreachable reports failure, and an add that could not read the dismissed
\* records neither reports success nor changes the Shortlist
C16_OutageReportsFailure ==
    [][(ghost'.requests = ghost.requests + 1 /\ Unreachable) =>
           /\ response'.status >= 400
           /\ response'.op = "add" => shortlistDoc' = shortlistDoc]_vars

\* the stored entries that carry a key of the article
EntriesOf(doc, article) ==
    {i \in 1..Len(doc.articles) :
        MatchesKeys(doc.articles[i], normalized[article.doi], normalized[article.title])}

-----------------------------------------------------------------------------
(* Properties of the near-duplicate rule (SpecNearDuplicate) *)

\* the distinct retained tokens a title shares with a dismissed record's title
SharedTokens(title, d) == Range(titleTokens[title]) \cap Range(titleTokens[d.title])

\* C11: with the dismissed records loaded, the near-duplicate rule rejects every
\* candidate title that shares at least 3 distinct retained tokens with some
\* dismissed title, whatever the size of that title's token set, and rejects no
\* candidate that shares no retained token with any dismissed title
C11_NearDuplicateRule ==
    (run.phase = "checked" /\ run.loaded) =>
        /\ (\E d \in Dismissed(referencesDb) :
                Cardinality(SharedTokens(run.last.title, d)) >= 3)
           => run.last.similar
        /\ (\A d \in Dismissed(referencesDb) : SharedTokens(run.last.title, d) = {})
           => ~run.last.similar

\* a candidate sharing three tokens with a dismissed title of eight tokens, and
\* fewer than three with any other dismissed title, has been rejected
C11_Witness ==
    /\ run.phase = "checked" /\ run.loaded /\ run.last.similar
    /\ \E d \in Dismissed(referencesDb) :
           /\ Cardinality(SharedTokens(run.last.title, d)) = 3
           /\ Cardinality(Range(titleTokens[d.title])) = 8
    /\ \A d \in Dismissed(referencesDb) :
           Cardinality(SharedTokens(run.last.title, d)) < 3
           \/ Cardinality(Range(titleTokens[d.title])) = 8

\* C22: with the dismissed records loaded, a candidate title is rejected as a
\* near-duplicate exactly when, for some dismissed title with a token set of size
\* n, the number of distinct tokens the two titles share reaches the threshold
\* for n: a token repeated in the candidate title counts once
C22_DistinctTokensCounted ==
    (run.phase = "checked" /\ run.loaded) =>
        (run.last.similar
         <=> \E d \in Dismissed(referencesDb) :
                 /\ titleTokens[d.title] # <<>>
                 /\ Cardinality(SharedTokens(run.last.title, d))
                        >= requiredMatches(Cardinality(Range(titleTokens[d.title]))))

-----------------------------------------------------------------------------
(* Properties of normalizeValue (SpecNormalize) *)

\* C21: the key of a key is that key; every value that differs from the given
\* one in letter case or in the white space around it has the same key; the
\* absent value, the empty string, has the empty key
C21_NormalizeIdempotent ==
    /\ run.phase \in {"keyed", "rekeyed"} =>
           /\ \A group \in CaseGroups :
                  run.core \in group =>
                      \A core \in group, lead \in LeadingSpaces, trail \in TrailingSpaces :
                          normalizeValue(lead \o core \o trail) = run.key
           /\ run.value = "" => run.key = ""
    /\ run.phase = "rekeyed" => run.again = run.key

\* C21 witness: a value with capitals and white space around it was normalised
\* twice
C21_Witness ==
    /\ run.phase = "rekeyed"
    /\ run.lead # "" /\ run.trail # ""
    /\ run.key # "" /\ run.key # run.core
    /\ run.again = run.key

-----------------------------------------------------------------------------
(* Properties of isValidArticle on malformed records (SpecGate) *)

\* no character of the title is a letter: digits, punctuation and blanks only
OnlyDigitsOrPunctuation(title) ==
    /\ title # ""
    /\ \A i \in 1..Len(title) :
           IndexIn(CharAt(title, i), UpperChars) = 0 /\ IndexIn(CharAt(title, i), LowerChars) = 0

\* C23: a record whose title is missing, shorter than 10 characters, made of
\* digits and punctuation only, or a "title pending" placeholder is not valid,
\* whatever its DOI and abstract and whatever the stores hold
C23_MalformedTitleRejected ==
    (run.phase = "CrossRef" /\ run.last # NoCandidate) =>
        ((\/ run.last.title = ""
          \/ Len(run.last.title) < 10
          \/ OnlyDigitsOrPunctuation(run.last.title)
          \/ titlePending(run.last.title))
         => ~run.last.valid)

-----------------------------------------------------------------------------
(* Properties of the near-duplicate threshold (SpecThreshold) *)

\* C30: for a dismissed token set of n >= 1 tokens the threshold is 2 when n is
\* at most 3 and 3 when n is at least 4, so it is never below 2 nor above 3, and
\* three matches reject the candidate whatever the size of the set
C30_ThresholdIsTwoOrThree ==
    run.phase \in {"required", "compared"} =>
        /\ run.size <= 3 => run.required = 2
        /\ run.size >= 4 => run.required = 3
        /\ run.required >= 2 /\ run.required <= 3
        /\ (run.phase = "compared" /\ run.matches >= 3) => run.similar

\* C30 witness: three matches with a token set of ten tokens have been compared
\* with a threshold of 3
C30_Witness ==
    /\ run.phase = "compared"
    /\ run.size = 10 /\ run.matches = 3
    /\ run.required = 3 /\ run.similar

=============================================================================
